---- MODULE Spec2Model ----
(***************************************************************************)
(* Event parser of Skepsis prediction markets: the polling ingestion       *)
(* pipeline (EventPoller / EventHandlers), the position aggregator and the *)
(* bulk settlement (PositionTracker), and the rebuild of positions from    *)
(* the event log (rebuildPositions).                                       *)
(*                                                                         *)
(* Three specifications share the definitions of the stores:               *)
(*   Spec        the poller: per-kind cursors, batches, handlers step by   *)
(*               step, failures of single calls, crash and restart;        *)
(*   SpecLedger  handlers and settlement runs applied one after another    *)
(*               on fresh events, and the rebuild from the log;            *)
(*   SpecRace    one handleClaim racing one settlement run.                *)
(*                                                                         *)
(* Amounts are bigint in the source; the cost basis of the shares sold is *)
(* computed in doubles (FloorOfProduct).                                   *)
(***************************************************************************)
EXTENDS Integers, Sequences, FiniteSets, TLC

VARIABLES
  \* ---- MongoDB collections
  trades,                \* documents of 'trades'
  position_events,       \* documents of 'position_events'
  user_positions,        \* key -> document of 'user_positions' or NoPos
  markets_cache,         \* market -> document of 'markets_cache' or NoMarket
  poller_cursors,        \* kind -> persisted cursor (0: no document)
  indexer_state,         \* tx of the 'last_event' document ("" when absent)
  scheduled_resolutions, \* markets with a document in 'scheduled_resolutions'
  \* ---- the chain
  tip,                   \* kind -> number of events emitted so far
  broken,                \* what fails on every attempt: kinds whose query
                         \* throws, events whose payload does not parse
  \* ---- EventPoller
  isRunning, cursors, pc, kindIdx, batch, batchPos,
  \* ---- bookkeeping of the poller runs (not program state)
  faults, crashes, returnedOK, applied, crashedMid, redelivered,
  startSaved, startTip, raisedIn, base, cacheFailed,
  \* ---- serial ledger runs
  now, settling, lastAct, snap, liveSnap,
  acct,                  \* key -> sums over the handler runs applied so far
  \* ---- handleClaim racing a settlement run
  racePc, raceRead, race0, raceEv,
  \* ---- the retry script
  failed_position_updates, \* job -> document of 'failed_position_updates' or NoJob
  retryRun,              \* the run of retryFailedPositionUpdates in progress
  attempts,              \* job -> what the runs so far did with it (not program state)
  \* ---- the backend API and the market events handed to the handlers
  registry,              \* market -> resolvedValue the API has been given, or Unset
  delivery,              \* the last market event delivered and what its handler did
  ingested               \* <<kind, market>> of the market events handled so far

storeVars  == <<trades, position_events, user_positions, markets_cache,
                poller_cursors, indexer_state, scheduled_resolutions>>
pollVars   == <<tip, broken, isRunning, cursors, pc, kindIdx, batch, batchPos>>
pollGhost  == <<faults, crashes, returnedOK, applied, crashedMid, redelivered,
                startSaved, startTip, raisedIn, base, cacheFailed>>
ledgerVars == <<now, settling, lastAct, snap, liveSnap, acct>>
raceVars   == <<racePc, raceRead, race0, raceEv>>
retryVars  == <<failed_position_updates, retryRun, attempts>>
marketVars == <<registry, delivery, ingested>>
vars == <<storeVars, pollVars, pollGhost, ledgerVars, raceVars, retryVars,
          marketVars>>

-----------------------------------------------------------------------------
(* Positions: key = (user, market, range_lower, range_upper).              *)

Keys == {"k1", "k2", "k3"}
Markets == {"M1", "M2"}

MarketOf(k) == IF k = "k3" THEN "M2" ELSE "M1"
RangeLower(k) == IF k = "k2" THEN 2 ELSE 0
RangeUpper(k) == IF k = "k2" THEN 4 ELSE 2

NoPos == [exists |-> FALSE]
NoMarket == [exists |-> FALSE]

\* An optional field is <<>> when absent and <<v>> when set.
Unset == <<>>
ValueOr0(opt) == IF opt = <<>> THEN 0 ELSE opt[1]

\* avg_entry_price is a double: <<n, d>> stands for n / d (d = 0: NaN or
\* an infinity), <<>> for a document that has no such field yet.
Zero == <<0, 1>>
Ratio(n, d) == <<n, d>>

-----------------------------------------------------------------------------
(* PositionTracker                                                         *)

\* The upsert with first_purchase_at under $set instead of $setOnInsert.
PurchaseUpsertStamped(p, ev) ==
  IF p = NoPos
  THEN [exists |-> TRUE,
        total_shares |-> ev.shares,
        total_cost_basis |-> ev.amount,
        avg_entry_price |-> Unset,
        realized_pnl |-> 0,
        total_shares_sold |-> 0,
        total_proceeds |-> 0,
        unrealized_pnl |-> Unset,
        is_active |-> TRUE,
        close_reason |-> "NONE",
        first_purchase_at |-> ev.ts,
        last_updated_at |-> ev.ts,
        last_tx_digest |-> ev.tx,
        closed_at |-> Unset]
  ELSE [p EXCEPT !.total_shares = @ + ev.shares,
                 !.total_cost_basis = @ + ev.amount,
                 !.first_purchase_at = ev.ts,
                 !.last_updated_at = ev.ts,
                 !.last_tx_digest = ev.tx,
                 !.is_active = TRUE]

\* handlePurchase, first write: findOneAndUpdate with upsert.
PurchaseUpsert(p, ev) ==
  IF p = NoPos
  THEN [exists |-> TRUE,
        total_shares |-> ev.shares,
        total_cost_basis |-> ev.amount,
        avg_entry_price |-> Unset,
        realized_pnl |-> 0,
        total_shares_sold |-> 0,
        total_proceeds |-> 0,
        unrealized_pnl |-> Unset,
        is_active |-> TRUE,
        close_reason |-> "NONE",
        first_purchase_at |-> ev.ts,
        last_updated_at |-> ev.ts,
        last_tx_digest |-> ev.tx,
        closed_at |-> Unset]
  ELSE [p EXCEPT !.total_shares = @ + ev.shares,
                 !.total_cost_basis = @ + ev.amount,
                 !.last_updated_at = ev.ts,
                 !.last_tx_digest = ev.tx,
                 !.is_active = TRUE]

\* handlePurchase, second write: avg_entry_price from the document the
\* first write returned, set on the document as it is now.
PurchaseSetAvg(cur, read) ==
  IF cur = NoPos THEN cur
  ELSE [cur EXCEPT !.avg_entry_price =
                      Ratio(read.total_cost_basis, read.total_shares)]

handlePurchase(p, ev) == PurchaseSetAvg(PurchaseUpsert(p, ev), PurchaseUpsert(p, ev))

\* Number(a) / Number(b) * Number(s) in binary64, for amounts below 2^16.
\* A value of positive sign is held as an integer of five limbs, the first
\* unbounded and the others of LimbBits bits (a quotient has 1 + 4 * 13 = 53
\* significant bits), and the exponent e of its last bit.
LimbBits == 13
LimbBase == 2 ^ LimbBits

RECURSIVE Normalize(_, _, _)
Normalize(num, den, k) ==
  IF num < den THEN Normalize(2 * num, den, k - 1)
  ELSE IF num >= 2 * den THEN Normalize(num, 2 * den, k + 1)
  ELSE <<num, den, k>>

\* limbs + 2^bit, for a bit of the last limb.
AddBit(limbs, bit) ==
  LET v5 == limbs[5] + 2 ^ bit
      v4 == limbs[4] + v5 \div LimbBase
      v3 == limbs[3] + v4 \div LimbBase
      v2 == limbs[2] + v3 \div LimbBase
  IN  <<limbs[1] + v2 \div LimbBase, v2 % LimbBase, v3 % LimbBase, v4 % LimbBase,
        v5 % LimbBase>>

\* a / b of two positive integers, rounded to nearest, ties to even.
DoubleQuotient(a, b) ==
  LET nz  == Normalize(a, b, 0)
      den == nz[2]
      r0  == nz[1] - den
      r1  == (r0 * LimbBase) % den
      r2  == (r1 * LimbBase) % den
      r3  == (r2 * LimbBase) % den
      r4  == (r3 * LimbBase) % den
      limbs == <<1, (r0 * LimbBase) \div den, (r1 * LimbBase) \div den,
                 (r2 * LimbBase) \div den, (r3 * LimbBase) \div den>>
      up  == 2 * r4 > den \/ (2 * r4 = den /\ limbs[5] % 2 = 1)
  IN  [limbs |-> IF up THEN AddBit(limbs, 0) ELSE limbs, e |-> nz[3] - 4 * LimbBits]

\* x * s for a positive integer s below 2^12, rounded to nearest, ties to
\* even: the exact product, then the bits below the 53 leading ones.
DoubleTimes(x, s) ==
  LET v5 == x.limbs[5] * s
      v4 == x.limbs[4] * s + v5 \div LimbBase
      v3 == x.limbs[3] * s + v4 \div LimbBase
      v2 == x.limbs[2] * s + v3 \div LimbBase
      p  == <<x.limbs[1] * s + v2 \div LimbBase, v2 % LimbBase, v3 % LimbBase,
              v4 % LimbBase, v5 % LimbBase>>
      d  == (CHOOSE n \in 1..30 : 2 ^ (n - 1) <= p[1] /\ p[1] < 2 ^ n) - 1
      low  == p[5] % (2 ^ d)
      last == IF d < LimbBits THEN (p[5] \div (2 ^ d)) % 2 ELSE p[4] % 2
      kept == [p EXCEPT ![5] = @ - low]
      up   == d > 0 /\ (2 * low > 2 ^ d \/ (2 * low = 2 ^ d /\ last = 1))
  IN  [limbs |-> IF up THEN AddBit(kept, d) ELSE kept, e |-> x.e]

\* limb * 2^sh rounded down.
Shifted(limb, sh) ==
  IF sh >= 0 THEN limb * 2 ^ sh
  ELSE IF 0 - sh >= 30 THEN 0
  ELSE limb \div (2 ^ (0 - sh))

\* Math.floor of a positive value below 2^31.
DoubleFloor(x) ==
  Shifted(x.limbs[1], 4 * LimbBits + x.e) + Shifted(x.limbs[2], 3 * LimbBits + x.e)
    + Shifted(x.limbs[3], 2 * LimbBits + x.e) + Shifted(x.limbs[4], LimbBits + x.e)
    + Shifted(x.limbs[5], x.e)

\* Math.ceil of a positive value below 2^31.
DoubleCeil(x) ==
  IF \E i \in 1..5 :
       LET sh == (5 - i) * LimbBits + x.e
       IN  sh < 0 /\ (IF 0 - sh >= 30 THEN x.limbs[i] # 0
                      ELSE x.limbs[i] % (2 ^ (0 - sh)) # 0)
  THEN DoubleFloor(x) + 1
  ELSE DoubleFloor(x)

Abs(n) == IF n < 0 THEN -n ELSE n

RECURSIVE GCD(_, _)
GCD(a, b) == IF b = 0 THEN a ELSE GCD(b, a % b)

RECURSIVE IsPowerOfTwo(_)
IsPowerOfTwo(n) == n = 1 \/ (n > 1 /\ n % 2 = 0 /\ IsPowerOfTwo(n \div 2))

\* Math.floor((c / t) * s) for t > 0 and s > 0. When c / t is a binary
\* fraction neither operation rounds. When t does not divide c * s the
\* product is at least 1/t away from every integer, which the two roundings
\* (each within 2^-53 of the value) cannot cross for amounts below 2^16. In
\* both cases the result is the exact floor; otherwise the two roundings
\* are carried out.
FloorOfProduct(c, t, s) ==
  IF c = 0 THEN 0
  ELSE IF (c * s) % t # 0 \/ IsPowerOfTwo(t \div GCD(Abs(c), t)) THEN (c * s) \div t
  ELSE IF c > 0 THEN DoubleFloor(DoubleTimes(DoubleQuotient(c, t), s))
  ELSE 0 - DoubleCeil(DoubleTimes(DoubleQuotient(Abs(c), t), s))

\* The cost basis of the shares sold rounded up instead of down.
CostBasisOfSoldCeil(read, ev) ==
  IF read.total_shares > 0
  THEN (read.total_cost_basis * ev.shares + read.total_shares - 1) \div read.total_shares
  ELSE 0

\* handleSale: cost basis of the shares sold, from the document read.
CostBasisOfSold(read, ev) ==
  IF read.total_shares > 0
  THEN FloorOfProduct(read.total_cost_basis, read.total_shares, ev.shares)
  ELSE 0

SaleDelta(read, ev) == ev.amount - CostBasisOfSold(read, ev)

\* The updateOne of handleSale taking the proceeds off the cost basis.
SaleWriteProceeds(cur, read, ev) ==
  IF cur = NoPos THEN cur
  ELSE LET newShares == read.total_shares - ev.shares
           newCost   == read.total_cost_basis - ev.amount
       IN [cur EXCEPT !.total_shares = newShares,
                      !.total_cost_basis = newCost,
                      !.avg_entry_price =
                         IF newShares > 0 THEN Ratio(newCost, newShares) ELSE Zero,
                      !.is_active = (newShares > 0),
                      !.last_updated_at = ev.ts,
                      !.last_tx_digest = ev.tx,
                      !.realized_pnl = @ + SaleDelta(read, ev),
                      !.total_shares_sold = @ + ev.shares,
                      !.total_proceeds = @ + ev.amount]

\* handleSale, the updateOne on the document as it is now (cur), with the
\* values computed from the document findOne returned (read).
SaleWrite(cur, read, ev) ==
  IF cur = NoPos THEN cur
  ELSE LET newShares == read.total_shares - ev.shares
           newCost   == read.total_cost_basis - CostBasisOfSold(read, ev)
       IN [cur EXCEPT !.total_shares = newShares,
                      !.total_cost_basis = newCost,
                      !.avg_entry_price =
                         IF newShares > 0 THEN Ratio(newCost, newShares) ELSE Zero,
                      !.is_active = (newShares > 0),
                      !.last_updated_at = ev.ts,
                      !.last_tx_digest = ev.tx,
                      !.realized_pnl = @ + SaleDelta(read, ev),
                      !.total_shares_sold = @ + ev.shares,
                      !.total_proceeds = @ + ev.amount]

\* handleSale removing, for a targeted sale, the proceeds from the cost
\* basis instead of the average cost.
handleSaleByMode(p, ev) ==
  IF p = NoPos THEN p
  ELSE IF "isFifoSell" \in DOMAIN ev /\ ~ev.isFifoSell
       THEN SaleWriteProceeds(p, p, ev)
       ELSE SaleWrite(p, p, ev)

\* handleSale refusing a sale of more shares than the position holds.
handleSaleRejecting(p, ev) ==
  IF p = NoPos \/ p.total_shares < ev.shares THEN p ELSE SaleWrite(p, p, ev)

handleSale(p, ev) == IF p = NoPos THEN p ELSE SaleWrite(p, p, ev)

\* handleClaim: unrealized_pnl of the document read moves to realized_pnl.
ClaimDelta(read) == ValueOr0(read.unrealized_pnl)

ClaimWrite(cur, read, ev) ==
  IF cur = NoPos THEN cur
  ELSE [cur EXCEPT !.total_shares = 0,
                   !.total_cost_basis = 0,
                   !.avg_entry_price = Zero,
                   !.unrealized_pnl = <<0>>,
                   !.is_active = FALSE,
                   !.close_reason = "CLAIMED",
                   !.last_updated_at = ev.ts,
                   !.last_tx_digest = ev.tx,
                   !.realized_pnl = @ + ClaimDelta(read),
                   !.total_shares_sold = @ + ev.shares,
                   !.total_proceeds = @ + ev.amount]

\* handleClaim writing with upsert: a claim without a position creates one.
handleClaimUpserting(p, ev) ==
  IF p = NoPos
  THEN ClaimWrite(PurchaseUpsert(NoPos, [ev EXCEPT !.shares = 0, !.amount = 0]),
                  PurchaseUpsert(NoPos, [ev EXCEPT !.shares = 0, !.amount = 0]), ev)
  ELSE ClaimWrite(p, p, ev)

handleClaim(p, ev) == IF p = NoPos THEN p ELSE ClaimWrite(p, p, ev)

\* The losing filter without its is_active condition.
LosingFilterAnyState(p, k, m, v) ==
  /\ p # NoPos
  /\ MarketOf(k) = m
  /\ (RangeLower(k) > v \/ RangeUpper(k) < v)

\* closeLosingPositions: the filter and the pipeline update of updateMany.
LosingFilter(p, k, m, v) ==
  /\ p # NoPos
  /\ MarketOf(k) = m
  /\ p.is_active
  /\ (RangeLower(k) > v \/ RangeUpper(k) < v)

\* The losing update that also writes off the shares and the cost basis.
LosingUpdateZeroing(p, t) ==
  [p EXCEPT !.is_active = FALSE,
            !.closed_at = <<t>>,
            !.last_updated_at = t,
            !.close_reason = "LOST_RESOLUTION",
            !.unrealized_pnl = <<p.total_cost_basis * (-1)>>,
            !.total_shares = 0,
            !.total_cost_basis = 0]

LosingUpdate(p, t) ==
  [p EXCEPT !.is_active = FALSE,
            !.closed_at = <<t>>,
            !.last_updated_at = t,
            !.close_reason = "LOST_RESOLUTION",
            !.unrealized_pnl = <<p.total_cost_basis * (-1)>>]

closeLosingPositions(pos, m, v, t) ==
  [k \in Keys |-> IF LosingFilter(pos[k], k, m, v) THEN LosingUpdate(pos[k], t) ELSE pos[k]]

\* The winning filter with the upper end of the range excluded.
WinningFilterHalfOpen(p, k, m, v) ==
  /\ p # NoPos
  /\ MarketOf(k) = m
  /\ p.is_active
  /\ RangeLower(k) <= v
  /\ RangeUpper(k) > v

\* calculateWinningPositions
WinningFilter(p, k, m, v) ==
  /\ p # NoPos
  /\ MarketOf(k) = m
  /\ p.is_active
  /\ RangeLower(k) <= v
  /\ RangeUpper(k) >= v

\* The winning update adding to the unrealized PnL it finds.
WinningUpdateAccum(p) ==
  [p EXCEPT !.unrealized_pnl = <<ValueOr0(@) + p.total_shares - p.total_cost_basis>>]

WinningUpdate(p) ==
  [p EXCEPT !.unrealized_pnl = <<p.total_shares - p.total_cost_basis>>]

calculateWinningPositions(pos, m, v) ==
  [k \in Keys |-> IF WinningFilter(pos[k], k, m, v) THEN WinningUpdate(pos[k]) ELSE pos[k]]

-----------------------------------------------------------------------------
(* EventHandlers: what the three trade handlers insert before they call    *)
(* the tracker.                                                            *)

TradeKinds == {"BET_PLACED", "SHARES_SOLD", "WINNINGS_CLAIMED"}

\* event_type the handler of a kind writes to position_events.
EventTypeOf(kind) ==
  CASE kind = "BET_PLACED" -> "SHARES_SOLD"
    [] kind = "SHARES_SOLD" -> "SHARES_SOLD"
    [] kind = "WINNINGS_CLAIMED" -> "REWARDS_CLAIMED"

\* The document a handler inserts into position_events.
\* action the handler of a kind writes to trades.
ActionOf(kind) ==
  CASE kind = "BET_PLACED" -> "BUY"
    [] kind = "SHARES_SOLD" -> "SELL"
    [] kind = "WINNINGS_CLAIMED" -> "CLAIM"

\* The document a trade handler inserts into trades.
TradeDoc(ev) ==
  [tx_hash |-> ev.tx, key |-> ev.key, action |-> ActionOf(ev.kind),
   shares |-> ev.shares, amount |-> ev.amount, timestamp |-> ev.ts]

LogRecord(ev) ==
  [tx_digest |-> ev.tx,
   event_type |-> EventTypeOf(ev.kind),
   key |-> ev.key,
   shares_delta |-> IF ev.kind = "BET_PLACED" THEN ev.shares ELSE -ev.shares,
   usdc_delta |-> IF ev.kind = "BET_PLACED" THEN -ev.amount ELSE ev.amount,
   timestamp |-> ev.ts]

\* Collections without unique indexes: no insert is refused.
DuplicateKeyNever(coll, ev) == FALSE

\* insertOne fails with code 11000: the unique index of trades on tx_hash,
\* of position_events on (tx_digest, event_type).
DuplicateKey(coll, ev) ==
  CASE coll = "trades" -> \E t \in trades : t.tx_hash = ev.tx
    [] coll = "position_events" ->
         \E r \in position_events : /\ r.tx_digest = LogRecord(ev).tx_digest
                                     /\ r.event_type = LogRecord(ev).event_type

\* The tracker call of a trade handler, as one read-and-write.
TrackerApply(p, ev) ==
  CASE ev.kind = "BET_PLACED" -> handlePurchase(p, ev)
    [] ev.kind = "SHARES_SOLD" -> handleSale(p, ev)
    [] ev.kind = "WINNINGS_CLAIMED" -> handleClaim(p, ev)

\* What the tracker returns to the handler: { realizedPnlDelta } of
\* handleSale and handleClaim, nothing (void) of handlePurchase.
TrackerReturn(p, ev) ==
  CASE ev.kind = "BET_PLACED" -> Unset
    [] ev.kind = "SHARES_SOLD" -> IF p = NoPos THEN <<0>> ELSE <<SaleDelta(p, ev)>>
    [] ev.kind = "WINNINGS_CLAIMED" -> IF p = NoPos THEN <<0>> ELSE <<ClaimDelta(p)>>

-----------------------------------------------------------------------------
(* rebuildPositions: the aggregation pipeline over position_events.        *)

RECURSIVE SumOver(_, _)
SumOver(S, f) ==
  IF S = {} THEN 0
  ELSE LET r == CHOOSE x \in S : TRUE IN f[r] + SumOver(S \ {r}, f)

RECURSIVE MinTs(_)
MinTs(S) ==
  LET r == CHOOSE x \in S : TRUE
  IN IF S = {r} THEN r.timestamp
     ELSE LET m == MinTs(S \ {r}) IN IF r.timestamp < m THEN r.timestamp ELSE m

\* $last after $sort by timestamp
LastByTs(S) == CHOOSE r \in S : \A q \in S : q.timestamp <= r.timestamp

GroupOf(log, k) == {r \in log : r.key = k}

RebuildGroup(G) ==
  LET sharesOf   == [r \in G |-> r.shares_delta]
      costOf     == [r \in G |-> IF r.shares_delta > 0 THEN Abs(r.usdc_delta) ELSE 0]
      proceedsOf == [r \in G |-> IF r.shares_delta < 0 THEN r.usdc_delta ELSE 0]
      soldOf     == [r \in G |-> IF r.shares_delta < 0 THEN Abs(r.shares_delta) ELSE 0]
      totalShares   == SumOver(G, sharesOf)
      totalCost     == SumOver(G, costOf)
      realized      == SumOver(G, proceedsOf)
  IN IF totalShares > 0 \/ realized # 0
     THEN [exists |-> TRUE,
           total_shares |-> totalShares,
           total_cost_basis |-> totalCost,
           avg_entry_price |-> IF totalShares > 0 THEN Ratio(totalCost, totalShares) ELSE Zero,
           realized_pnl |-> realized,
           total_shares_sold |-> SumOver(G, soldOf),
           total_proceeds |-> SumOver(G, proceedsOf),
           unrealized_pnl |-> Unset,
           is_active |-> (totalShares > 0),
           close_reason |-> "NONE",
           first_purchase_at |-> MinTs(G),
           last_updated_at |-> LastByTs(G).timestamp,
           last_tx_digest |-> LastByTs(G).tx_digest,
           closed_at |-> Unset]
     ELSE NoPos

rebuildPositions(log) ==
  [k \in Keys |-> IF GroupOf(log, k) = {} THEN NoPos ELSE RebuildGroup(GroupOf(log, k))]

-----------------------------------------------------------------------------
(* Initial values                                                          *)

KindSeq == <<"BET_PLACED", "SHARES_SOLD", "WINNINGS_CLAIMED", "MARKET_RESOLVED", "MARKET_CREATED">>
KindSet == {KindSeq[i] : i \in 1..Len(KindSeq)}

\* The events of the chain, per kind, in the order queryEvents returns them.
Stream(kind) ==
  CASE kind = "BET_PLACED" ->
         <<[kind |-> "BET_PLACED", tx |-> "b1", key |-> "k1", shares |-> 4, amount |-> 2, ts |-> 1],
           [kind |-> "BET_PLACED", tx |-> "b2", key |-> "k1", shares |-> 2, amount |-> 3, ts |-> 2]>>
    [] kind = "SHARES_SOLD" ->
         <<[kind |-> "SHARES_SOLD", tx |-> "d1", key |-> "k1", shares |-> 2, amount |-> 3, ts |-> 3]>>
    [] kind = "WINNINGS_CLAIMED" ->
         <<[kind |-> "WINNINGS_CLAIMED", tx |-> "w1", key |-> "k1", shares |-> 4, amount |-> 4, ts |-> 5]>>
    [] kind = "MARKET_RESOLVED" ->
         <<[kind |-> "MARKET_RESOLVED", tx |-> "r1", market |-> "M1", value |-> 1, ts |-> 4]>>
    [] kind = "MARKET_CREATED" ->
         <<[kind |-> "MARKET_CREATED", tx |-> "m1", market |-> "M1", ts |-> 0]>>

\* An event of the chain: <<kind, position in the stream of the kind>>.
EventIds == UNION {{<<k, i>> : i \in 1..Len(Stream(k))} : k \in KindSet}
TradeIds == {e \in EventIds : e[1] \in TradeKinds}

NoEv == [kind |-> "none"]
NoSettle == [on |-> FALSE]
NoSnap == [on |-> FALSE]

StoreInit ==
  /\ trades = {}
  /\ position_events = {}
  /\ user_positions = [k \in Keys |-> NoPos]
  /\ markets_cache = [m \in Markets |-> NoMarket]
  /\ poller_cursors = [k \in KindSet |-> 0]
  /\ indexer_state = ""
  /\ scheduled_resolutions = {}

\* Every query answers and every payload parses.
NoBroken == [query |-> {}, payload |-> {}]

\* The poller before start(), on a chain without events.
PollerIdle ==
  /\ tip = [k \in KindSet |-> 0]
  /\ isRunning = FALSE
  /\ cursors = [k \in KindSet |-> 0]
  /\ pc = "stopped"
  /\ kindIdx = 1
  /\ batch = <<>>
  /\ batchPos = 0
  /\ faults = 0
  /\ crashes = 0
  /\ returnedOK = {}
  /\ applied = [e \in TradeIds |-> 0]
  /\ crashedMid = {}
  /\ redelivered = {}
  /\ startSaved = [k \in KindSet |-> 0]
  /\ startTip = [k \in KindSet |-> 0]
  /\ raisedIn = [k \in KindSet |-> <<>>]
  /\ base = [k \in KindSet |-> 0]
  /\ cacheFailed = {}

PollIdle == PollerIdle /\ broken = NoBroken

LedgerIdle ==
  /\ now = 0
  /\ settling = NoSettle
  /\ lastAct = [op |-> "none", ev |-> NoEv, swallowed |-> FALSE, settles |-> 0,
                rebuilds |-> 0, ret |-> Unset]
  /\ snap = NoSnap
  /\ liveSnap = NoSnap

\* paid: costs of the purchases applied to the key; removed: costBasisOfSold
\* of the sales applied to its position; claims: claims applied to it.
NoAcct == [paid |-> 0, removed |-> 0, claims |-> 0]

AcctIdle == acct = [k \in Keys |-> NoAcct]

\* No job queued, the retry script not running.
NoJob == [exists |-> FALSE]
JobIds == {"j1", "j2", "j3"}
NoRun == [on |-> FALSE, n |-> 0, failedJobs |-> <<>>, pos |-> 0]
NoAttempt == [total |-> 0, inRun |-> 0, failed |-> 0, first |-> 0]

NoDelivery == [kind |-> "none"]

MarketIdle ==
  /\ registry = [m \in Markets |-> Unset]
  /\ delivery = NoDelivery
  /\ ingested = {}

RetryIdle ==
  /\ failed_position_updates = [j \in JobIds |-> NoJob]
  /\ retryRun = NoRun
  /\ attempts = [j \in JobIds |-> NoAttempt]

RaceIdle ==
  /\ racePc = [claim |-> "off", settle |-> "off"]
  /\ raceRead = NoPos
  /\ race0 = NoSnap
  /\ raceEv = NoEv

-----------------------------------------------------------------------------
(* SpecLedger: trade handlers, settlement runs and the rebuild, one after  *)
(* another. Every event carries a fresh transaction digest and the time of *)
(* its step.                                                               *)

MaxOps == 3

TxNames == <<"t1", "t2", "t3", "t4", "t5", "t6", "t7", "t8">>

\* (shares, amount) of the events
LedgerAmounts == {<<4, 2>>, <<2, 3>>}
ResolvedValues == {1, 2, 5}

\* (shares, amount) of the purchases the store starts with
SeedAmounts == <<4, 2>>

LedgerEvent(kind, k, sa) ==
  [kind |-> kind, tx |-> TxNames[now + 1], key |-> k,
   shares |-> sa[1], amount |-> sa[2], ts |-> now + 1]

\* The sums of a key after the tracker has applied ev to the position p.
Account(a, p, ev) ==
  CASE ev.kind = "BET_PLACED" -> [a EXCEPT !.paid = @ + ev.amount]
    [] ev.kind = "SHARES_SOLD" ->
         IF p = NoPos THEN a ELSE [a EXCEPT !.removed = @ + CostBasisOfSold(p, ev)]
    [] ev.kind = "WINNINGS_CLAIMED" ->
         IF p = NoPos THEN a ELSE [a EXCEPT !.claims = @ + 1]

\* One trade handler from its first insert to its return (no failure):
\* trades.insertOne, position_events.insertOne, then the tracker. The
\* duplicate-key error of either insert is caught and the handler returns.
Ingest(ev, op) ==
  /\ ~settling.on
  /\ IF DuplicateKey("trades", ev)
     THEN UNCHANGED <<trades, position_events, user_positions>>
     ELSE /\ trades' = trades \cup {TradeDoc(ev)}
          /\ IF DuplicateKey("position_events", ev)
             THEN UNCHANGED <<position_events, user_positions>>
             ELSE /\ position_events' = position_events \cup {LogRecord(ev)}
                  /\ user_positions' =
                       [user_positions EXCEPT ![ev.key] = TrackerApply(@, ev)]
  /\ acct' = IF DuplicateKey("trades", ev) \/ DuplicateKey("position_events", ev)
             THEN acct
             ELSE [acct EXCEPT ![ev.key] = Account(@, user_positions[ev.key], ev)]
  /\ lastAct' = [lastAct EXCEPT !.op = op, !.ev = ev,
                                !.swallowed = \/ DuplicateKey("trades", ev)
                                              \/ DuplicateKey("position_events", ev),
                                !.ret = IF \/ DuplicateKey("trades", ev)
                                           \/ DuplicateKey("position_events", ev)
                                        THEN Unset
                                        ELSE TrackerReturn(user_positions[ev.key], ev)]
  /\ snap' = NoSnap
  /\ liveSnap' = NoSnap
  /\ UNCHANGED <<settling, markets_cache, poller_cursors, indexer_state,
                 scheduled_resolutions>>
  /\ UNCHANGED <<pollGhost, raceVars, retryVars, marketVars>>

\* The handler on the next fresh event of the ledger.
LedgerIngest(ev, op) ==
  /\ now < MaxOps
  /\ Ingest(ev, op)
  /\ now' = now + 1
  /\ UNCHANGED pollVars

LedgerBetPlaced ==
  \E k \in Keys, sa \in LedgerAmounts :
    LedgerIngest(LedgerEvent("BET_PLACED", k, sa), "BET_PLACED")
LedgerSharesSold ==
  \E k \in Keys, sa \in LedgerAmounts :
    LedgerIngest(LedgerEvent("SHARES_SOLD", k, sa), "SHARES_SOLD")
LedgerWinningsClaimed ==
  \E k \in Keys, sa \in LedgerAmounts :
    LedgerIngest(LedgerEvent("WINNINGS_CLAIMED", k, sa), "WINNINGS_CLAIMED")

\* The handler of the last event is invoked once more with the same event
\* (same transaction digest, same kind).
LedgerRedeliver ==
  /\ lastAct.op \in TradeKinds
  /\ LedgerIngest(lastAct.ev, "redeliver")

\* The transaction of the last event emitted a second event, of another
\* kind: its handler runs with the same digest.
LedgerSameTx ==
  /\ lastAct.op \in TradeKinds
  /\ \E kind \in TradeKinds \ {lastAct.ev.kind}, k \in Keys :
       LedgerIngest([kind |-> kind, tx |-> lastAct.ev.tx, key |-> k,
                     shares |-> SeedAmounts[1], amount |-> SeedAmounts[2],
                     ts |-> lastAct.ev.ts],
                    "sametx")

\* A settlement run (retryFailedPositionUpdates, one job): first the losing
\* set ...
LedgerCloseLosing ==
  \E m \in Markets, v \in ResolvedValues :
    /\ now < MaxOps
    /\ ~settling.on
    /\ user_positions' = closeLosingPositions(user_positions, m, v, now + 1)
    /\ settling' = [on |-> TRUE, m |-> m, v |-> v]
    /\ now' = now + 1
    /\ lastAct' = [lastAct EXCEPT !.op = "closeLosing", !.ev = NoEv, !.ret = Unset]
    /\ snap' = IF snap.on /\ snap.m = m /\ snap.v = v THEN snap ELSE NoSnap
    /\ liveSnap' = NoSnap
    /\ UNCHANGED acct
    /\ UNCHANGED <<trades, position_events, markets_cache, poller_cursors,
                   indexer_state, scheduled_resolutions>>
    /\ UNCHANGED <<pollVars, pollGhost, raceVars, retryVars, marketVars>>

\* ... then the winning set.
LedgerCalcWinning ==
  /\ settling.on
  /\ user_positions' = calculateWinningPositions(user_positions, settling.m, settling.v)
  /\ settling' = NoSettle
  /\ lastAct' = [lastAct EXCEPT !.op = "calcWinning", !.ev = NoEv, !.ret = Unset,
                                !.settles = @ + 1]
  /\ snap' = IF snap.on
             THEN [snap EXCEPT !.runs = @ + 1]
             ELSE [on |-> TRUE, m |-> settling.m, v |-> settling.v,
                   pos |-> user_positions', runs |-> 1]
  /\ UNCHANGED <<now, liveSnap, acct>>
  /\ UNCHANGED <<trades, position_events, markets_cache, poller_cursors,
                 indexer_state, scheduled_resolutions>>
  /\ UNCHANGED <<pollVars, pollGhost, raceVars, retryVars, marketVars>>

\* rebuildPositions: deleteMany, aggregate, insertMany.
LedgerRebuild ==
  /\ now < MaxOps
  /\ ~settling.on
  /\ lastAct.op # "rebuild"
  /\ user_positions' = rebuildPositions(position_events)
  /\ liveSnap' = [on |-> TRUE, pos |-> user_positions]
  /\ now' = now + 1
  /\ lastAct' = [lastAct EXCEPT !.op = "rebuild", !.ev = NoEv, !.ret = Unset,
                                !.rebuilds = @ + 1]
  /\ snap' = NoSnap
  /\ UNCHANGED acct
  /\ UNCHANGED <<settling, trades, position_events, markets_cache, poller_cursors,
                 indexer_state, scheduled_resolutions>>
  /\ UNCHANGED <<pollVars, pollGhost, raceVars, retryVars, marketVars>>

\* The store at the start: the purchases of SeedAmounts already ingested for
\* the keys of one of InitialHoldings.
InitialHoldings == {{}, {"k1", "k2"}, {"k1", "k2", "k3"}}
SeedTx(k) == CASE k = "k1" -> "s1" [] k = "k2" -> "s2" [] k = "k3" -> "s3"
SeedEvent(k) ==
  [kind |-> "BET_PLACED", tx |-> SeedTx(k), key |-> k,
   shares |-> SeedAmounts[1], amount |-> SeedAmounts[2], ts |-> 0]

SeededStore(H) ==
  /\ trades = {TradeDoc(SeedEvent(k)) : k \in H}
  /\ position_events = {LogRecord(SeedEvent(k)) : k \in H}
  /\ user_positions =
       [k \in Keys |-> IF k \in H THEN handlePurchase(NoPos, SeedEvent(k)) ELSE NoPos]
  /\ markets_cache = [m \in Markets |-> NoMarket]
  /\ poller_cursors = [k \in KindSet |-> 0]
  /\ indexer_state = ""
  /\ scheduled_resolutions = {}

LedgerInit ==
  /\ \E H \in InitialHoldings :
       /\ SeededStore(H)
       /\ acct = [k \in Keys |->
                   IF k \in H THEN [NoAcct EXCEPT !.paid = SeedEvent(k).amount]
                   ELSE NoAcct]
  /\ PollIdle /\ LedgerIdle /\ RetryIdle /\ MarketIdle /\ RaceIdle

LedgerNext ==
  \/ LedgerBetPlaced
  \/ LedgerSharesSold
  \/ LedgerWinningsClaimed
  \/ LedgerRedeliver
  \/ LedgerSameTx
  \/ LedgerCloseLosing
  \/ LedgerCalcWinning
  \/ LedgerRebuild

SpecLedger == LedgerInit /\ [][LedgerNext]_vars

-----------------------------------------------------------------------------
(* Spec: the poller. One loop visits the kinds in the order of EVENT_TYPES;*)
(* for a kind it fetches the events after the cursor of the kind, runs the *)
(* handler of each, and then moves the cursor. A database call of a trade  *)
(* handler may fail (Raise), the process may crash and be started again.   *)
(* The queries of initializeCursors and the write of saveLastEvent are     *)
(* taken to succeed.                                                       *)

BatchLimit == 2
\* Failed calls and crashes of one behaviour, taken together.
MaxFailures == 1

CurKind == KindSeq[kindIdx]
CurIdx == batch[batchPos]
CurEv == Stream(CurKind)[CurIdx]
CurId == <<CurKind, CurIdx>>

HandlerPcs == {"h_trades", "h_events", "h_track", "h_avg", "h_resolved", "h_created"}

FirstStep(kind) ==
  CASE kind \in TradeKinds -> "h_trades"
    [] kind = "MARKET_RESOLVED" -> "h_resolved"
    [] kind = "MARKET_CREATED" -> "h_created"

NextKindIdx == IF kindIdx = Len(KindSeq) THEN 1 ELSE kindIdx + 1

Min(a, b) == IF a < b THEN a ELSE b

\* queryEvents({cursor, limit, order: 'ascending'}): positions of the events
\* after the cursor, at most BatchLimit of them.
QueryEvents(kind, cursor) ==
  [i \in 1..(Min(cursor + BatchLimit, tip[kind]) - cursor) |-> cursor + i]

\* The chain is one ledger: its events are emitted in one order (that of
\* their timestamps); the stream of a kind is the events of that kind.
ChainOrder == <<"MARKET_CREATED", "BET_PLACED", "BET_PLACED", "SHARES_SOLD",
                "MARKET_RESOLVED", "WINNINGS_CLAIMED">>

Emitted == tip["BET_PLACED"] + tip["SHARES_SOLD"] + tip["WINNINGS_CLAIMED"]
           + tip["MARKET_RESOLVED"] + tip["MARKET_CREATED"]

\* The chain emits its next event.
Emit ==
  /\ Emitted < Len(ChainOrder)
  /\ tip' = [tip EXCEPT ![ChainOrder[Emitted + 1]] = @ + 1]
  /\ UNCHANGED <<broken, isRunning, cursors, pc, kindIdx, batch, batchPos>>
  /\ UNCHANGED <<storeVars, pollGhost, ledgerVars, retryVars, marketVars, raceVars>>

\* initializeCursors: the cursors poller_cursors holds, or, when it holds
\* none at all, the latest event of every kind.
InitialCursors ==
  IF \E k \in KindSet : poller_cursors[k] # 0
  THEN [k \in KindSet |-> poller_cursors[k]]
  ELSE [k \in KindSet |-> tip[k]]

\* start(): initializeCursors, then the loop begins with the first kind.
Start ==
  /\ ~isRunning
  /\ isRunning' = TRUE
  /\ cursors' = InitialCursors
  /\ pc' = "fetch"
  /\ kindIdx' = 1
  /\ batch' = <<>>
  /\ batchPos' = 0
  /\ startSaved' = poller_cursors
  /\ startTip' = tip
  /\ raisedIn' = [k \in KindSet |-> <<>>]
  /\ base' = [k \in KindSet |-> IF poller_cursors[k] = 0 THEN cursors'[k] ELSE base[k]]
  /\ UNCHANGED <<tip, broken, faults, crashes, returnedOK, applied, crashedMid, redelivered,
                 cacheFailed>>
  /\ UNCHANGED <<storeVars, ledgerVars, retryVars, marketVars, raceVars>>

\* fetchAndProcessEvents, one kind: queryEvents from the cursor of the kind.
Fetch ==
  /\ pc = "fetch"
  /\ CurKind \notin broken.query
  /\ LET b == QueryEvents(CurKind, cursors[CurKind]) IN
       IF Len(b) = 0
       THEN /\ kindIdx' = NextKindIdx
            /\ UNCHANGED <<pc, batch, batchPos>>
       ELSE /\ batch' = b
            /\ batchPos' = 1
            /\ pc' = FirstStep(CurKind)
            /\ UNCHANGED kindIdx
  /\ UNCHANGED <<tip, broken, isRunning, cursors>>
  /\ UNCHANGED <<faults, crashes, returnedOK, applied, crashedMid, redelivered,
                 startSaved, startTip, raisedIn, base, cacheFailed>>
  /\ UNCHANGED <<storeVars, ledgerVars, retryVars, marketVars, raceVars>>

\* processEvent after the handler returned: saveLastEvent, then the next
\* event of the batch or, after the last one, the cursor.
FinishEvent ==
  /\ indexer_state' = CurEv.tx
  /\ returnedOK' = returnedOK \cup {CurId}
  /\ IF batchPos < Len(batch)
     THEN /\ batchPos' = batchPos + 1
          /\ pc' = FirstStep(CurKind)
     ELSE /\ pc' = "advance"
          /\ UNCHANGED batchPos
  /\ UNCHANGED <<tip, broken, isRunning, cursors, kindIdx, batch>>

\* Trade handler, trades.insertOne. A duplicate key ends the handler.
HandleTradesInsert ==
  /\ pc = "h_trades"
  /\ CurId \notin broken.payload
  /\ IF DuplicateKey("trades", CurEv)
     THEN /\ FinishEvent
          /\ UNCHANGED trades
     ELSE /\ trades' = trades \cup {TradeDoc(CurEv)}
          /\ pc' = "h_events"
          /\ UNCHANGED <<indexer_state, returnedOK, batchPos>>
          /\ UNCHANGED <<tip, broken, isRunning, cursors, kindIdx, batch>>
  /\ UNCHANGED <<position_events, user_positions, markets_cache, poller_cursors,
                 scheduled_resolutions>>
  /\ UNCHANGED <<faults, crashes, applied, crashedMid, redelivered, startSaved,
                 startTip, raisedIn, base, cacheFailed>>
  /\ UNCHANGED <<ledgerVars, retryVars, marketVars, raceVars>>

\* Trade handler, position_events.insertOne.
HandleEventsInsert ==
  /\ pc = "h_events"
  /\ IF DuplicateKey("position_events", CurEv)
     THEN /\ FinishEvent
          /\ UNCHANGED position_events
     ELSE /\ position_events' = position_events \cup {LogRecord(CurEv)}
          /\ pc' = "h_track"
          /\ UNCHANGED <<indexer_state, returnedOK, batchPos>>
          /\ UNCHANGED <<tip, broken, isRunning, cursors, kindIdx, batch>>
  /\ UNCHANGED <<trades, user_positions, markets_cache, poller_cursors,
                 scheduled_resolutions>>
  /\ UNCHANGED <<faults, crashes, applied, crashedMid, redelivered, startSaved,
                 startTip, raisedIn, base, cacheFailed>>
  /\ UNCHANGED <<ledgerVars, retryVars, marketVars, raceVars>>

\* Trade handler, the tracker: handleSale or handleClaim (findOne and
\* updateOne), or the upsert of handlePurchase.
HandleTrack ==
  /\ pc = "h_track"
  /\ IF CurKind = "BET_PLACED"
     THEN /\ user_positions' =
               [user_positions EXCEPT ![CurEv.key] = PurchaseUpsert(@, CurEv)]
          /\ pc' = "h_avg"
          /\ UNCHANGED <<indexer_state, returnedOK, batchPos>>
          /\ UNCHANGED <<tip, broken, isRunning, cursors, kindIdx, batch>>
     ELSE /\ user_positions' =
               [user_positions EXCEPT ![CurEv.key] = TrackerApply(@, CurEv)]
          /\ FinishEvent
  /\ applied' = [applied EXCEPT ![CurId] = @ + 1]
  /\ UNCHANGED <<trades, position_events, markets_cache, poller_cursors,
                 scheduled_resolutions>>
  /\ UNCHANGED <<faults, crashes, crashedMid, redelivered, startSaved,
                 startTip, raisedIn, base, cacheFailed>>
  /\ UNCHANGED <<ledgerVars, retryVars, marketVars, raceVars>>

\* handlePurchase, the updateOne of avg_entry_price.
HandleAvg ==
  /\ pc = "h_avg"
  /\ user_positions' =
       [user_positions EXCEPT ![CurEv.key] = PurchaseSetAvg(@, @)]
  /\ FinishEvent
  /\ UNCHANGED <<trades, position_events, markets_cache, poller_cursors,
                 scheduled_resolutions>>
  /\ UNCHANGED <<faults, crashes, applied, crashedMid, redelivered, startSaved,
                 startTip, raisedIn, base, cacheFailed>>
  /\ UNCHANGED <<ledgerVars, retryVars, marketVars, raceVars>>

\* A failing handler that moves the cursor of its kind past the batch.
RaiseAdvancing ==
  /\ pc \in {"h_trades", "h_events", "h_track", "h_avg"}
  /\ faults + crashes < MaxFailures
  /\ faults' = faults + 1
  /\ raisedIn' = [raisedIn EXCEPT ![CurKind] = batch]
  /\ cursors' = [cursors EXCEPT ![CurKind] = batch[Len(batch)]]
  /\ pc' = "fetch"
  /\ kindIdx' = NextKindIdx
  /\ batch' = <<>>
  /\ batchPos' = 0
  /\ UNCHANGED <<tip, broken, isRunning>>
  /\ UNCHANGED <<crashes, returnedOK, applied, crashedMid, redelivered, startSaved,
                 startTip, base, cacheFailed>>
  /\ UNCHANGED <<storeVars, ledgerVars, retryVars, marketVars, raceVars>>

\* A database call of a trade handler fails with an error other than a
\* duplicate key: the handler rethrows, the catch of the loop over the kinds
\* logs it and the loop goes on with the next kind.
Raise ==
  /\ pc \in {"h_trades", "h_events", "h_track", "h_avg"}
  /\ faults + crashes < MaxFailures
  /\ faults' = faults + 1
  /\ raisedIn' = [raisedIn EXCEPT ![CurKind] = batch]
  /\ pc' = "fetch"
  /\ kindIdx' = NextKindIdx
  /\ batch' = <<>>
  /\ batchPos' = 0
  /\ UNCHANGED <<tip, broken, isRunning, cursors>>
  /\ UNCHANGED <<crashes, returnedOK, applied, crashedMid, redelivered, startSaved,
                 startTip, base, cacheFailed>>
  /\ UNCHANGED <<storeVars, ledgerVars, retryVars, marketVars, raceVars>>

\* updateMarketResolution: updateOne without upsert.
updateMarketResolution(cache, m, v) ==
  IF cache[m] = NoMarket THEN cache
  ELSE [cache EXCEPT ![m] = [@ EXCEPT !.status = "RESOLVED", !.resolved_value = <<v>>]]

\* What a field of the parsed event can hold: nothing ("absent": reading it
\* gives undefined), null, the empty string, a text that is no numeral, a
\* numeral of an integer, a numeral with a fraction.
FieldValues == {"absent", "null", "", "abc", "1", "1.5"}
ResolvedFields ==
  <<"winning_outcome", "resolution_value", "resolved_value", "value", "result_value">>

\* a ?? b: b when a is null or undefined.
Coalesce(a, b) == IF a \in {"absent", "null"} THEN b ELSE a

\* event.winning_outcome ?? event.resolution_value ?? event.resolved_value
\*   ?? event.value ?? event.result_value
resolvedValueRaw(event) ==
  Coalesce(Coalesce(Coalesce(Coalesce(event.winning_outcome, event.resolution_value),
                             event.resolved_value), event.value), event.result_value)

\* Number(x) of JavaScript on these values: null and "" give 0, a text that
\* is no numeral gives NaN.
NaN == [nan |-> TRUE]
ToNumber(x) ==
  CASE x = "1"   -> [nan |-> FALSE, integer |-> TRUE, n |-> 1]
    [] x = "1.5" -> [nan |-> FALSE, integer |-> FALSE, n |-> 1]
    [] x \in {"null", ""} -> [nan |-> FALSE, integer |-> TRUE, n |-> 0]
    [] OTHER     -> NaN

\* resolvedValueRaw !== undefined ? Number(resolvedValueRaw) : undefined
Undefined == [undefined |-> TRUE]
resolvedValueOf(event) ==
  IF resolvedValueRaw(event) = "absent" THEN Undefined
  ELSE ToNumber(resolvedValueRaw(event))

\* How axios.patch ends: with a 2xx answer, with an error answer
\* (error.response), without an answer (error.request: unreachable, timeout).
PatchOutcomes == {"ok", "response", "request"}

\* The handler that undoes the cache update when the call of the API fails.
handleMarketResolvedRollingBack(cache, reg, m, event, patch) ==
  LET resolvedValue == resolvedValueOf(event)
      done(c, r, p) == [cache |-> c, registry |-> r, patch |-> p, threw |-> FALSE,
                        resolvedValue |-> resolvedValue]
  IN  IF resolvedValue = Undefined \/ resolvedValue = NaN THEN done(cache, reg, "none")
      ELSE IF ~resolvedValue.integer THEN done(cache, reg, "none")
      ELSE IF patch = "ok"
           THEN done(updateMarketResolution(cache, m, resolvedValue.n),
                     [reg EXCEPT ![m] = <<resolvedValue.n>>], patch)
           ELSE done(cache, reg, patch)

\* handleMarketResolved on a parsed event: the decoding, the early return,
\* BigInt(resolvedValue) (a RangeError for a fraction, caught like every
\* other error), updateMarketResolution, axios.patch, and the catch that
\* logs and returns. The result holds the collection, the API's record, how
\* the patch ended ("none": not sent) and whether the handler threw.
handleMarketResolved(cache, reg, m, event, patch) ==
  LET resolvedValue == resolvedValueOf(event)
      done(c, r, p) == [cache |-> c, registry |-> r, patch |-> p, threw |-> FALSE,
                        resolvedValue |-> resolvedValue]
  IN  IF resolvedValue = Undefined \/ resolvedValue = NaN THEN done(cache, reg, "none")
      ELSE IF ~resolvedValue.integer THEN done(cache, reg, "none")
      ELSE IF patch = "ok"
           THEN done(updateMarketResolution(cache, m, resolvedValue.n),
                     [reg EXCEPT ![m] = <<resolvedValue.n>>], patch)
           ELSE done(updateMarketResolution(cache, m, resolvedValue.n), reg, patch)

\* handleMarketResolved in the poller, on an event whose value decodes: the
\* cache update and the call of the API, here answered with 2xx (SpecMarket
\* has the failing answers). Whatever fails inside is caught and logged; the
\* handler returns.
HandleMarketResolved ==
  /\ pc = "h_resolved"
  /\ \/ /\ markets_cache' = updateMarketResolution(markets_cache, CurEv.market, CurEv.value)
        /\ registry' = [registry EXCEPT ![CurEv.market] = <<CurEv.value>>]
        /\ cacheFailed' = cacheFailed \ {CurId}
        /\ UNCHANGED faults
     \/ /\ faults + crashes < MaxFailures
        /\ faults' = faults + 1
        /\ cacheFailed' = cacheFailed \cup {CurId}
        /\ UNCHANGED <<markets_cache, registry>>
  /\ FinishEvent
  /\ UNCHANGED <<trades, position_events, user_positions, poller_cursors,
                 scheduled_resolutions>>
  /\ UNCHANGED <<crashes, applied, crashedMid, redelivered, startSaved,
                 startTip, raisedIn, base>>
  /\ UNCHANGED <<ledgerVars, retryVars, delivery, ingested, raceVars>>

\* cacheMarketMetadata as handleMarketCreated calls it: upsert with status
\* ACTIVE and resolved_value null.
cacheMarketMetadata(cache, m) ==
  [cache EXCEPT ![m] = [exists |-> TRUE, status |-> "ACTIVE", resolved_value |-> Unset]]

\* handleMarketCreated: the cache, then scheduled_resolutions (a duplicate
\* ends the handler); nothing is rethrown.
HandleMarketCreated ==
  /\ pc = "h_created"
  /\ markets_cache' = cacheMarketMetadata(markets_cache, CurEv.market)
  /\ scheduled_resolutions' = scheduled_resolutions \cup {CurEv.market}
  /\ FinishEvent
  /\ UNCHANGED <<trades, position_events, user_positions, poller_cursors>>
  /\ UNCHANGED <<faults, crashes, applied, crashedMid, redelivered, startSaved,
                 startTip, raisedIn, base, cacheFailed>>
  /\ UNCHANGED <<ledgerVars, retryVars, marketVars, raceVars>>

\* After the last event of the batch: cursors.set(name, nextCursor) and
\* saveCursor, whose own failure is swallowed.
Advance ==
  /\ pc = "advance"
  /\ cursors' = [cursors EXCEPT ![CurKind] = batch[Len(batch)]]
  /\ \/ /\ poller_cursors' = [poller_cursors EXCEPT ![CurKind] = batch[Len(batch)]]
        /\ UNCHANGED faults
     \/ /\ faults + crashes < MaxFailures
        /\ faults' = faults + 1
        /\ UNCHANGED poller_cursors
  /\ redelivered' = redelivered \cup
                      ({<<CurKind, batch[i]>> : i \in 1..Len(batch)} \cap crashedMid)
  /\ pc' = "fetch"
  /\ kindIdx' = NextKindIdx
  /\ batch' = <<>>
  /\ batchPos' = 0
  /\ UNCHANGED <<tip, broken, isRunning>>
  /\ UNCHANGED <<trades, position_events, user_positions, markets_cache,
                 indexer_state, scheduled_resolutions>>
  /\ raisedIn' = [raisedIn EXCEPT ![CurKind] = <<>>]
  /\ UNCHANGED <<crashes, returnedOK, applied, crashedMid, startSaved, startTip,
                 base, cacheFailed>>
  /\ UNCHANGED <<ledgerVars, retryVars, marketVars, raceVars>>

\* The process dies; what it held in memory is gone.
Crash ==
  /\ isRunning
  /\ faults + crashes < MaxFailures
  /\ crashes' = crashes + 1
  /\ crashedMid' = IF pc = "h_track" THEN crashedMid \cup {CurId} ELSE crashedMid
  /\ isRunning' = FALSE
  /\ cursors' = [k \in KindSet |-> 0]
  /\ pc' = "stopped"
  /\ kindIdx' = 1
  /\ batch' = <<>>
  /\ batchPos' = 0
  /\ UNCHANGED <<tip, broken>>
  /\ UNCHANGED <<faults, returnedOK, applied, redelivered, startSaved, startTip,
                 raisedIn, base, cacheFailed>>
  /\ UNCHANGED <<storeVars, ledgerVars, retryVars, marketVars, raceVars>>

Init == StoreInit /\ PollIdle /\ LedgerIdle /\ RetryIdle /\ MarketIdle /\ AcctIdle /\ RaceIdle

Next ==
  \/ Emit
  \/ Start
  \/ Fetch
  \/ HandleTradesInsert
  \/ HandleEventsInsert
  \/ HandleTrack
  \/ HandleAvg
  \/ Raise
  \/ HandleMarketResolved
  \/ HandleMarketCreated
  \/ Advance
  \/ Crash

Spec == Init /\ [][Next]_vars

-----------------------------------------------------------------------------
(* Claims on the poller                                                    *)

\* C2 (as claimed): an event whose handler was cut by a crash after the
\* insert into position_events and before the write of the position, and
\* which is delivered again after the restart, has had its effect applied to
\* its position exactly once when the redelivered batch has been handled.
C2_ExactlyOnceAfterCrash ==
  \A e \in redelivered : applied[e] = 1

IsPrefix(s, t) == Len(s) <= Len(t) /\ SubSeq(t, 1, Len(s)) = s

\* C4: the cursor of a kind, in memory and in poller_cursors, moves only to
\* the last event of the batch of that kind and only when the handler of
\* every event of the batch has returned; a step in which a handler raises
\* leaves both cursors of the kind as they were, and the next fetch of the
\* kind returns the batch that raised again, from its first event on.
C4_CursorAfterBatch ==
  [][/\ \A k \in KindSet :
          (\/ (isRunning /\ isRunning' /\ cursors'[k] # cursors[k])
           \/ poller_cursors'[k] # poller_cursors[k])
            => /\ k = CurKind
               /\ Len(batch) > 0
               /\ cursors'[k] = batch[Len(batch)]
               /\ poller_cursors'[k] \in {poller_cursors[k], batch[Len(batch)]}
               /\ \A i \in 1..Len(batch) : <<k, batch[i]>> \in returnedOK
     /\ \A k \in KindSet :
          (raisedIn'[k] # <<>> /\ raisedIn'[k] # raisedIn[k])
            => /\ cursors'[k] = cursors[k]
               /\ poller_cursors'[k] = poller_cursors[k]
     /\ (pc = "fetch" /\ pc' \in HandlerPcs /\ raisedIn[CurKind] # <<>>)
            => IsPrefix(raisedIn[CurKind], batch')
     /\ (pc = "fetch" /\ kindIdx' # kindIdx /\ isRunning')
            => raisedIn[CurKind] = <<>>]_vars

\* A batch of two events raised, was fetched again and has now been handled
\* to its end; the cursor is about to move.
C4_Witness ==
  /\ pc = "advance"
  /\ Len(batch) = 2
  /\ raisedIn[CurKind] = batch
  /\ cursors[CurKind] < batch[1]
  /\ \A i \in 1..Len(batch) : <<CurKind, batch[i]>> \in returnedOK

\* C5 (as claimed): a MarketResolved event whose update of markets_cache
\* failed is not behind the MARKET_RESOLVED cursor, in memory or persisted.
C5_ResolvedCursorHeld ==
  \A e \in cacheFailed :
    /\ cursors["MARKET_RESOLVED"] < e[2]
    /\ poller_cursors["MARKET_RESOLVED"] < e[2]

\* The steps of the poller itself; the chain (Emit) and the failures (Raise,
\* Crash) are not among them.
PollerStep ==
  \/ Start
  \/ Fetch
  \/ HandleTradesInsert
  \/ HandleEventsInsert
  \/ HandleTrack
  \/ HandleAvg
  \/ HandleMarketResolved
  \/ HandleMarketCreated
  \/ Advance

\* The poller keeps running: start() is called, and the loop of poll() and
\* every awaited call in it go on.
SpecFair == Spec /\ WF_vars(PollerStep)

ResolvedIds == {e \in EventIds : e[1] = "MARKET_RESOLVED"}

\* A position no settlement run and no claim has classified yet.
Unclassified(k) ==
  /\ user_positions[k] # NoPos
  /\ user_positions[k].is_active
  /\ user_positions[k].unrealized_pnl = Unset

\* C15 (as claimed): once the handler of a MarketResolved event has
\* returned, every position of its market that is active and unclassified
\* then is eventually closed or has its unrealizedPnl set.
C15_SettlementFollowsResolution ==
  \A e \in ResolvedIds : \A k \in Keys :
    (/\ e \in returnedOK
     /\ MarketOf(k) = Stream(e[1])[e[2]].market
     /\ Unclassified(k))
      ~> ~Unclassified(k)

\* C6 (as claimed): every event a handler is given lies after the point its
\* kind started from: the cursor persisted for the kind at the start, or,
\* with none persisted for the kind, the tip of the kind at the start.
C6_StartCursorPerKind ==
  pc \in HandlerPcs =>
    CurIdx > (IF startSaved[CurKind] # 0 THEN startSaved[CurKind] ELSE startTip[CurKind])

-----------------------------------------------------------------------------
(* Claims on the ledger                                                    *)

\* The fields a replay is compared on.
Core(p) ==
  IF p = NoPos THEN NoPos
  ELSE [total_shares |-> p.total_shares,
        total_cost_basis |-> p.total_cost_basis,
        realized_pnl |-> p.realized_pnl,
        total_shares_sold |-> p.total_shares_sold,
        total_proceeds |-> p.total_proceeds,
        is_active |-> p.is_active]

\* C1: the handler of a purchase, sale or claim event invoked a second time
\* right after the first, with the same transaction digest and kind, meets
\* the unique index, returns without raising, and changes no position (nor
\* the log, nor trades).
C1_HandlerIdempotent ==
  [][(lastAct.op \in TradeKinds /\ lastAct'.op = "redeliver") =>
       /\ lastAct'.swallowed
       /\ lastAct'.ev = lastAct.ev
       /\ user_positions' = user_positions
       /\ position_events' = position_events
       /\ trades' = trades]_vars

C1_Witness ==
  /\ lastAct.op = "redeliver"
  /\ lastAct.swallowed
  /\ lastAct.ev.kind = "SHARES_SOLD"
  /\ user_positions[lastAct.ev.key] # NoPos
  /\ user_positions[lastAct.ev.key].last_tx_digest = lastAct.ev.tx
  /\ user_positions[lastAct.ev.key].total_shares_sold = lastAct.ev.shares

\* C3 (as claimed): after purchases, sales and claims only, the snapshot
\* rebuildPositions writes equals, on totalShares, totalCostBasis,
\* realizedPnl, totalSharesSold, totalProceeds and isActive, the state the
\* live handlers had reached, for every key the live aggregator holds.
C3_ReplayEqualsLive ==
  (lastAct.op = "rebuild" /\ lastAct.settles = 0 /\ lastAct.rebuilds = 1)
    => \A k \in Keys :
         liveSnap.pos[k] # NoPos => Core(user_positions[k]) = Core(liveSnap.pos[k])

\* C7: a settlement run repeated with the same market and resolved value,
\* with no event in between, changes no field of any position: from the end
\* of the first run on, through both updates of every repeated run, the
\* store equals the store the first run left.
C7_SettlementIdempotent ==
  snap.on => user_positions = snap.pos

C7_Witness ==
  /\ snap.on /\ snap.runs >= 2 /\ ~settling.on
  /\ \E k \in Keys : /\ MarketOf(k) = snap.m
                     /\ user_positions[k] # NoPos
                     /\ user_positions[k].is_active
                     /\ user_positions[k].unrealized_pnl \notin {Unset, <<0>>}
  /\ \E k \in Keys : /\ MarketOf(k) = snap.m
                     /\ user_positions[k] # NoPos
                     /\ user_positions[k].close_reason = "LOST_RESOLUTION"

\* C8: the losing-set update of a settlement of market m with value v sets
\* isActive = false, closeReason = lostResolution and unrealizedPnl =
\* -totalCostBasis on exactly the active positions of m with v < rangeLower
\* or v > rangeUpper (their totals untouched), and changes no other position.
C8_LosingSet ==
  [][(~settling.on /\ settling'.on) =>
       \A k \in Keys :
         LET p == user_positions[k]
             q == user_positions'[k]
             v == settling'.v
         IN IF /\ p # NoPos
               /\ MarketOf(k) = settling'.m
               /\ p.is_active
               /\ (v < RangeLower(k) \/ v > RangeUpper(k))
            THEN /\ q.is_active = FALSE
                 /\ q.close_reason = "LOST_RESOLUTION"
                 /\ q.unrealized_pnl = <<0 - p.total_cost_basis>>
                 /\ q.total_shares = p.total_shares
                 /\ q.total_cost_basis = p.total_cost_basis
                 /\ q.realized_pnl = p.realized_pnl
            ELSE q = p]_vars

C8_Witness ==
  /\ settling.on
  /\ \E k \in Keys : /\ MarketOf(k) = settling.m
                     /\ user_positions[k] # NoPos
                     /\ user_positions[k].closed_at = <<now>>
                     /\ user_positions[k].close_reason = "LOST_RESOLUTION"
                     /\ user_positions[k].unrealized_pnl = <<-2>>
  /\ \E k \in Keys : /\ MarketOf(k) = settling.m
                     /\ user_positions[k] # NoPos
                     /\ user_positions[k].is_active
  /\ \E k \in Keys : /\ MarketOf(k) # settling.m
                     /\ user_positions[k] # NoPos
                     /\ user_positions[k].is_active

\* C9: the winning-set update of a settlement of market m with value v sets
\* unrealizedPnl = totalShares - totalCostBasis on exactly the active
\* positions of m with rangeLower <= v <= rangeUpper, changes nothing else of
\* them (they stay active, closeReason as it was), and changes no other
\* position.
C9_WinningSet ==
  [][(settling.on /\ ~settling'.on) =>
       \A k \in Keys :
         LET p == user_positions[k]
             q == user_positions'[k]
             v == settling.v
         IN IF /\ p # NoPos
               /\ MarketOf(k) = settling.m
               /\ p.is_active
               /\ RangeLower(k) <= v
               /\ v <= RangeUpper(k)
            THEN /\ q = [p EXCEPT !.unrealized_pnl = <<p.total_shares - p.total_cost_basis>>]
                 /\ q.is_active
                 /\ q.close_reason = p.close_reason
            ELSE q = p]_vars

C9_Witness ==
  /\ lastAct.op = "calcWinning"
  /\ snap.on /\ snap.v = 2
  /\ \A k \in {"k1", "k2"} : /\ user_positions[k] # NoPos
                             /\ user_positions[k].is_active
                             /\ user_positions[k].close_reason = "NONE"
                             /\ user_positions[k].unrealized_pnl = <<2>>

-----------------------------------------------------------------------------
(* Claims on the tracker, on the steps of SpecLedger                       *)

\* The step is a run of the handler of `kind` on a fresh event that reached
\* the tracker.
TrackerStep(kind) ==
  /\ now' = now + 1
  /\ lastAct'.op = kind
  /\ ~lastAct'.swallowed

\* C12 (as claimed): handleClaim on an existing position adds payout minus
\* the cost basis held before the claim to realizedPnl, sets totalShares and
\* totalCostBasis to 0, isActive to false and closeReason to claimed,
\* whether or not a settlement run has set unrealizedPnl before.
C12_ClaimFormula ==
  [][TrackerStep("WINNINGS_CLAIMED") =>
       LET ev == lastAct'.ev
           p == user_positions[ev.key]
           q == user_positions'[ev.key]
       IN p # NoPos =>
            /\ q.realized_pnl = p.realized_pnl + (ev.amount - p.total_cost_basis)
            /\ q.total_shares = 0
            /\ q.total_cost_basis = 0
            /\ q.is_active = FALSE
            /\ q.close_reason = "CLAIMED"]_vars

C14_PurchaseFormula ==
  [][TrackerStep("BET_PLACED") =>
       LET ev == lastAct'.ev
           p == user_positions[ev.key]
           q == user_positions'[ev.key]
       IN /\ q # NoPos
          /\ q.is_active
          /\ IF p = NoPos
             THEN /\ q.total_shares = ev.shares
                  /\ q.total_cost_basis = ev.amount
                  /\ q.first_purchase_at = ev.ts
                  /\ q.realized_pnl = 0
                  /\ q.total_shares_sold = 0
                  /\ q.total_proceeds = 0
             ELSE /\ q.total_shares = p.total_shares + ev.shares
                  /\ q.total_cost_basis = p.total_cost_basis + ev.amount
                  /\ q.first_purchase_at = p.first_purchase_at
                  /\ q.realized_pnl = p.realized_pnl
                  /\ q.total_shares_sold = p.total_shares_sold
                  /\ q.total_proceeds = p.total_proceeds]_vars

\* A purchase has just been applied to a position that had a sale before.
C14_Witness ==
  /\ lastAct.op = "BET_PLACED"
  /\ ~lastAct.swallowed
  /\ LET q == user_positions[lastAct.ev.key] IN
       /\ q # NoPos
       /\ q.last_tx_digest = lastAct.ev.tx
       /\ q.first_purchase_at < lastAct.ev.ts
       /\ q.total_shares_sold > 0
       /\ q.realized_pnl # 0

\* C16 (as claimed): a position that is closed (isActive = false) is not
\* active again after any later event or settlement update.
C16_ClosedIsTerminal ==
  [][lastAct'.op # "rebuild" =>
       \A k \in Keys :
         (user_positions[k] # NoPos /\ ~user_positions[k].is_active)
           => (user_positions'[k] # NoPos /\ ~user_positions'[k].is_active)]_vars

\* C17 (as claimed): with the positions written by handlers and settlement
\* runs only, a position with isActive = false has closeReason sold,
\* lostResolution or claimed.
C17_ClosedHasReason ==
  lastAct.rebuilds = 0 =>
    \A k \in Keys :
      (user_positions[k] # NoPos /\ ~user_positions[k].is_active)
        => user_positions[k].close_reason \in {"SOLD", "LOST_RESOLUTION", "CLAIMED"}

\* C18 (as claimed): the handler of an event that shares its transaction
\* digest with an event of another kind handled before is not treated as a
\* duplicate: its record enters position_events and the tracker applies it
\* to its position.
C18_KeyIsDigestAndKind ==
  [][(now' = now + 1 /\ lastAct'.op = "sametx") =>
       LET ev == lastAct'.ev IN
       /\ ~lastAct'.swallowed
       /\ \E r \in position_events' \ position_events : r.tx_digest = ev.tx
       /\ user_positions'[ev.key] = TrackerApply(user_positions[ev.key], ev)]_vars

\* C19 (as claimed): the record a handler adds to position_events has the
\* kind of its event with the matching signs: SHARES_PURCHASED with
\* shares_delta > 0 and usdc_delta < 0 for a purchase, SHARES_SOLD or
\* REWARDS_CLAIMED with shares_delta < 0 and usdc_delta > 0 for a sale or a
\* claim.
C19_LogKindAndSigns ==
  [][(now' = now + 1 /\ lastAct'.op \in TradeKinds) =>
       \A r \in position_events' \ position_events :
         /\ lastAct'.ev.kind = "BET_PLACED" =>
              (r.event_type = "SHARES_PURCHASED" /\ r.shares_delta > 0 /\ r.usdc_delta < 0)
         /\ lastAct'.ev.kind = "SHARES_SOLD" =>
              (r.event_type = "SHARES_SOLD" /\ r.shares_delta < 0 /\ r.usdc_delta > 0)
         /\ lastAct'.ev.kind = "WINNINGS_CLAIMED" =>
              (r.event_type = "REWARDS_CLAIMED" /\ r.shares_delta < 0 /\ r.usdc_delta > 0)
         /\ ~(r.event_type = "SHARES_SOLD" /\ r.shares_delta > 0)]_vars

\* C20: for a key with purchases and sales only (no claim applied, no
\* rebuild), the costs of all purchases applied equal the totalCostBasis of
\* the position plus the costRemoved of all sales applied.
C20_CostBasisConserved ==
  lastAct.rebuilds = 0 =>
    \A k \in Keys :
      acct[k].claims = 0 =>
        IF user_positions[k] = NoPos
        THEN acct[k].paid = 0 /\ acct[k].removed = 0
        ELSE acct[k].paid = user_positions[k].total_cost_basis + acct[k].removed

\* Two purchases and a sale with costRemoved > 0 have been applied to a
\* position that still holds cost basis.
C20_Witness ==
  /\ lastAct.rebuilds = 0
  /\ \E k \in Keys :
       /\ acct[k].claims = 0
       /\ acct[k].paid > SeedAmounts[2]
       /\ acct[k].removed > 0
       /\ user_positions[k] # NoPos
       /\ user_positions[k].total_cost_basis > 0
       /\ user_positions[k].total_shares_sold > 0

\* The double a equals the double b (both finite).
SameRatio(a, b) ==
  /\ a # Unset /\ b # Unset
  /\ a[2] # 0 /\ b[2] # 0
  /\ a[1] * b[2] = b[1] * a[2]

\* C21 (as claimed): in every state of a position written by the handlers,
\* avgEntryPrice is totalCostBasis / totalShares when totalShares is not 0
\* and 0 when totalShares is 0, also after an over-sell.
C21_AvgConsistent ==
  lastAct.rebuilds = 0 =>
    \A k \in Keys :
      user_positions[k] # NoPos =>
        SameRatio(user_positions[k].avg_entry_price,
                  IF user_positions[k].total_shares # 0
                  THEN Ratio(user_positions[k].total_cost_basis,
                             user_positions[k].total_shares)
                  ELSE Zero)

\* C28: a sale of more shares than the position holds is applied like any
\* other: the cost removed is the average cost of the recorded totals times
\* the shares sold, totalShares goes below 0, the position is inactive and
\* the proceeds minus the cost removed are returned as realizedPnlDelta.
C28_OverSellApplied ==
  [][(/\ TrackerStep("SHARES_SOLD")
      /\ user_positions[lastAct'.ev.key] # NoPos
      /\ lastAct'.ev.shares > user_positions[lastAct'.ev.key].total_shares) =>
       LET ev == lastAct'.ev
           p == user_positions[ev.key]
           q == user_positions'[ev.key]
           costRemoved == IF p.total_shares > 0
                          THEN (p.total_cost_basis * ev.shares) \div p.total_shares
                          ELSE 0
       IN /\ q # NoPos
          /\ LogRecord(ev) \in position_events'
          /\ q.total_shares = p.total_shares - ev.shares
          /\ q.total_cost_basis = p.total_cost_basis - costRemoved
          /\ q.total_shares_sold = p.total_shares_sold + ev.shares
          /\ q.realized_pnl = p.realized_pnl + (ev.amount - costRemoved)
          /\ ~q.is_active
          /\ lastAct'.ret = <<ev.amount - costRemoved>>]_vars

\* A sale of 4 shares has just been applied to a position of 2 shares.
C28_Witness ==
  /\ lastAct.op = "SHARES_SOLD"
  /\ ~lastAct.swallowed
  /\ lastAct.ev.shares = 4
  /\ lastAct.ret # Unset
  /\ LET q == user_positions[lastAct.ev.key] IN
       /\ q # NoPos
       /\ q.last_tx_digest = lastAct.ev.tx
       /\ q.total_shares = -2
       /\ q.total_cost_basis < 0
       /\ ~q.is_active

\* C29: handleSale and handleClaim for a key without a position change no
\* position (none is created), and return realizedPnlDelta = 0 to the
\* handler, which completes.
C29_MissingPositionNoOp ==
  [][\A kind \in {"SHARES_SOLD", "WINNINGS_CLAIMED"} :
       (TrackerStep(kind) /\ user_positions[lastAct'.ev.key] = NoPos) =>
         /\ user_positions' = user_positions
         /\ lastAct'.ret = <<0>>
         /\ LogRecord(lastAct'.ev) \in position_events']_vars

\* A claim has just been handled for a key that has no position.
C29_Witness ==
  /\ lastAct.op = "WINNINGS_CLAIMED"
  /\ ~lastAct.swallowed
  /\ lastAct.ret = <<0>>
  /\ user_positions[lastAct.ev.key] = NoPos
  /\ LogRecord(lastAct.ev) \in position_events

\* The market of the settlement call the step makes, if it makes one.
SettlementStep(m) ==
  \/ lastAct'.op = "closeLosing" /\ settling'.on /\ settling'.m = m
  \/ lastAct'.op = "calcWinning" /\ settling.on /\ settling.m = m

\* C31: a settlement call for market m changes totalShares and
\* totalCostBasis of no position, and no field at all of a position of
\* another market or of a position that is inactive when the call runs.
C31_SettlementFrame ==
  [][\A m \in Markets :
       SettlementStep(m) =>
         \A k \in Keys :
           user_positions[k] # NoPos =>
             /\ user_positions'[k] # NoPos
             /\ user_positions'[k].total_shares = user_positions[k].total_shares
             /\ user_positions'[k].total_cost_basis = user_positions[k].total_cost_basis
             /\ (MarketOf(k) # m \/ ~user_positions[k].is_active) =>
                  user_positions'[k] = user_positions[k]]_vars

\* A settlement run of a market is over that closed a losing position with
\* shares and cost basis on it, next to a position of the same market that
\* was inactive before the run and a position of another market.
C31_Witness ==
  /\ lastAct.op = "calcWinning"
  /\ snap.on
  /\ \E k \in Keys : /\ MarketOf(k) = snap.m
                     /\ user_positions[k] # NoPos
                     /\ user_positions[k].close_reason = "LOST_RESOLUTION"
                     /\ user_positions[k].total_shares > 0
                     /\ user_positions[k].total_cost_basis > 0
  /\ \E k \in Keys : /\ MarketOf(k) = snap.m
                     /\ user_positions[k] # NoPos
                     /\ ~user_positions[k].is_active
                     /\ user_positions[k].close_reason # "LOST_RESOLUTION"
  /\ \E k \in Keys : MarketOf(k) # snap.m /\ user_positions[k] # NoPos

-----------------------------------------------------------------------------
(* reconcile: the final position of a key recomputed from trades           *)

\* finalShares * 1_000_000n
ShareUnit == 1000000

\* calculateFinalPosition over the trades T of one (user, range).
calculateFinalPosition(T, rangeStart, rangeEnd, resolutionValue) ==
  LET of(a) == {t \in T : t.action = a}
      totalSharesBought == SumOver(of("BUY"), [t \in T |-> t.shares])
      totalInvested == SumOver(of("BUY"), [t \in T |-> t.amount])
      totalSharesSold == SumOver(of("SELL"), [t \in T |-> t.shares])
      totalReceivedSells == SumOver(of("SELL"), [t \in T |-> t.amount])
      claimAmount == SumOver(of("CLAIM"), [t \in T |-> t.amount])
      finalShares == totalSharesBought - totalSharesSold
      isWinning == resolutionValue >= rangeStart /\ resolutionValue <= rangeEnd
  IN  CASE claimAmount > 0 ->
             [status |-> "CLAIMED", final_shares |-> finalShares,
              realized_pnl |-> (totalReceivedSells + claimAmount) - totalInvested]
        [] claimAmount <= 0 /\ finalShares = 0 ->
             [status |-> "SOLD", final_shares |-> finalShares,
              realized_pnl |-> totalReceivedSells - totalInvested]
        [] claimAmount <= 0 /\ finalShares # 0 /\ isWinning ->
             [status |-> "WINNING", final_shares |-> finalShares,
              realized_pnl |-> (totalReceivedSells + finalShares * ShareUnit)
                                 - totalInvested]
        [] OTHER ->
             [status |-> "LOSING", final_shares |-> finalShares,
              realized_pnl |-> totalReceivedSells - totalInvested]

\* reconcileMarketPositions: the trades of the market grouped by (user,
\* range), each group through calculateFinalPosition.
reconcile(k, resolvedValue) ==
  calculateFinalPosition({t \in trades : t.key = k},
                         RangeLower(k), RangeUpper(k), resolvedValue)

\* C27 (as claimed): after a settlement run of a market, with the trades
\* ingested so far, the PnL reconcile computes for a position of the market
\* equals realizedPnl + unrealizedPnl of the live position.
C27_ReconcileMatchesLive ==
  (lastAct.op = "calcWinning" /\ lastAct.rebuilds = 0 /\ snap.on) =>
    \A k \in Keys :
      (MarketOf(k) = snap.m /\ user_positions[k] # NoPos) =>
        reconcile(k, snap.v).realized_pnl =
          user_positions[k].realized_pnl + ValueOr0(user_positions[k].unrealized_pnl)

-----------------------------------------------------------------------------
(* SpecRace: handleClaim of the indexer (findOne, then updateOne by _id)   *)
(* and one settlement run of the retry script (closeLosingPositions, then  *)
(* calculateWinningPositions) on the same market, as two processes on the  *)
(* same database; every single database call is atomic.                    *)

RaceKeys == {"k1", "k2"}
RaceClaimTime == 1
RaceSettleTime == 2

RaceHoldings == {{"k1"}, {"k2"}, {"k1", "k2"}}

RaceInit ==
  /\ \E H \in RaceHoldings, U \in SUBSET RaceKeys :
       /\ U \subseteq H
       /\ trades = {TradeDoc(SeedEvent(k)) : k \in H}
       /\ position_events = {LogRecord(SeedEvent(k)) : k \in H}
       /\ user_positions =
            [k \in Keys |->
               IF k \notin H THEN NoPos
               ELSE IF k \in U THEN WinningUpdate(handlePurchase(NoPos, SeedEvent(k)))
               ELSE handlePurchase(NoPos, SeedEvent(k))]
  /\ markets_cache = [m \in Markets |-> NoMarket]
  /\ poller_cursors = [k \in KindSet |-> 0]
  /\ indexer_state = ""
  /\ scheduled_resolutions = {}
  /\ \E k \in RaceKeys, v \in ResolvedValues :
       raceEv = [kind |-> "WINNINGS_CLAIMED", tx |-> "c1", key |-> k,
                 shares |-> SeedAmounts[1], amount |-> SeedAmounts[1],
                 ts |-> RaceClaimTime, m |-> "M1", v |-> v]
  /\ racePc = [claim |-> "find", settle |-> "losing"]
  /\ raceRead = NoPos
  /\ race0 = [on |-> TRUE, pos |-> user_positions]
  /\ PollIdle /\ LedgerIdle /\ RetryIdle /\ MarketIdle /\ AcctIdle

RaceUnchanged ==
  /\ UNCHANGED <<trades, position_events, markets_cache, poller_cursors,
                 indexer_state, scheduled_resolutions>>
  /\ UNCHANGED <<race0, raceEv>>
  /\ UNCHANGED <<pollVars, pollGhost, ledgerVars, retryVars, marketVars>>

\* handleClaim: findOne
RaceClaimFind ==
  /\ racePc.claim = "find"
  /\ raceRead' = user_positions[raceEv.key]
  /\ racePc' = [racePc EXCEPT !.claim = IF raceRead' = NoPos THEN "done" ELSE "update"]
  /\ UNCHANGED user_positions
  /\ RaceUnchanged

\* handleClaim: updateOne({_id})
RaceClaimUpdate ==
  /\ racePc.claim = "update"
  /\ user_positions' =
       [user_positions EXCEPT ![raceEv.key] = ClaimWrite(@, raceRead, raceEv)]
  /\ racePc' = [racePc EXCEPT !.claim = "done"]
  /\ UNCHANGED raceRead
  /\ RaceUnchanged

RaceCloseLosing ==
  /\ racePc.settle = "losing"
  /\ user_positions' =
       closeLosingPositions(user_positions, raceEv.m, raceEv.v, RaceSettleTime)
  /\ racePc' = [racePc EXCEPT !.settle = "winning"]
  /\ UNCHANGED raceRead
  /\ RaceUnchanged

RaceCalcWinning ==
  /\ racePc.settle = "winning"
  /\ user_positions' = calculateWinningPositions(user_positions, raceEv.m, raceEv.v)
  /\ racePc' = [racePc EXCEPT !.settle = "done"]
  /\ UNCHANGED raceRead
  /\ RaceUnchanged

RaceNext ==
  \/ RaceClaimFind
  \/ RaceClaimUpdate
  \/ RaceCloseLosing
  \/ RaceCalcWinning

SpecRace == RaceInit /\ [][RaceNext]_vars

\* The two serial orders.
SettleRun(pos, ev) ==
  calculateWinningPositions(closeLosingPositions(pos, ev.m, ev.v, RaceSettleTime), ev.m, ev.v)

ClaimRun(pos, ev) == [pos EXCEPT ![ev.key] = handleClaim(@, ev)]

ClaimThenSettle(pos, ev) == SettleRun(ClaimRun(pos, ev), ev)
SettleThenClaim(pos, ev) == ClaimRun(SettleRun(pos, ev), ev)

\* C10 (as claimed): when handleClaim and the settlement run of the same
\* market have both finished, in whatever order their database calls were
\* interleaved, the position store equals the store one of the two serial
\* orders produces.
C10_ClaimSettleSerializable ==
  (racePc.claim = "done" /\ racePc.settle = "done")
    => \/ user_positions = ClaimThenSettle(race0.pos, raceEv)
       \/ user_positions = SettleThenClaim(race0.pos, raceEv)

-----------------------------------------------------------------------------
(* SpecListener: the subscription listener. Each kind has its own          *)
(* subscription and onMessage does not wait for the callback of another    *)
(* message, so handleBetPlaced and handleSharesSold of two events on the   *)
(* same position run as two processes; every database call is atomic. The *)
(* two events have different digests, so the inserts into trades and       *)
(* position_events succeed; the steps are the calls of the tracker.        *)

ListenKey == "k1"

\* The position the two events find: none, one purchase, two purchases.
ListenPositions ==
  {NoPos,
   handlePurchase(NoPos, SeedEvent(ListenKey)),
   handlePurchase(handlePurchase(NoPos, SeedEvent(ListenKey)),
                  [SeedEvent(ListenKey) EXCEPT !.tx = "s4", !.shares = 2, !.amount = 3])}

ListenInit ==
  /\ \E p \in ListenPositions :
       user_positions = [k \in Keys |-> IF k = ListenKey THEN p ELSE NoPos]
  /\ trades = {}
  /\ position_events = {}
  /\ markets_cache = [m \in Markets |-> NoMarket]
  /\ poller_cursors = [k \in KindSet |-> 0]
  /\ indexer_state = ""
  /\ scheduled_resolutions = {}
  /\ \E ba \in LedgerAmounts, sa \in LedgerAmounts :
       raceEv = [buy |-> [kind |-> "BET_PLACED", tx |-> "c1", key |-> ListenKey,
                          shares |-> ba[1], amount |-> ba[2], ts |-> 1],
                 sell |-> [kind |-> "SHARES_SOLD", tx |-> "c2", key |-> ListenKey,
                           shares |-> sa[1], amount |-> sa[2], ts |-> 1]]
  /\ racePc = [buy |-> "upsert", sell |-> "find"]
  /\ raceRead = [buy |-> NoPos, sell |-> NoPos]
  /\ race0 = [on |-> TRUE, pos |-> user_positions]
  /\ PollIdle /\ LedgerIdle /\ RetryIdle /\ MarketIdle /\ AcctIdle

\* handlePurchase: findOneAndUpdate (upsert, returnDocument 'after')
ListenPurchaseUpsert ==
  /\ racePc.buy = "upsert"
  /\ user_positions' =
       [user_positions EXCEPT ![ListenKey] = PurchaseUpsert(@, raceEv.buy)]
  /\ raceRead' = [raceRead EXCEPT !.buy = user_positions'[ListenKey]]
  /\ racePc' = [racePc EXCEPT !.buy = "avg"]
  /\ RaceUnchanged

\* handlePurchase: updateOne({_id}, {$set: {avg_entry_price}})
ListenPurchaseAvg ==
  /\ racePc.buy = "avg"
  /\ user_positions' =
       [user_positions EXCEPT ![ListenKey] = PurchaseSetAvg(@, raceRead.buy)]
  /\ racePc' = [racePc EXCEPT !.buy = "done"]
  /\ UNCHANGED raceRead
  /\ RaceUnchanged

\* handleSale: findOne
ListenSaleFind ==
  /\ racePc.sell = "find"
  /\ raceRead' = [raceRead EXCEPT !.sell = user_positions[ListenKey]]
  /\ racePc' = [racePc EXCEPT !.sell = IF user_positions[ListenKey] = NoPos
                                       THEN "done" ELSE "update"]
  /\ UNCHANGED user_positions
  /\ RaceUnchanged

\* handleSale: updateOne({_id})
ListenSaleUpdate ==
  /\ racePc.sell = "update"
  /\ user_positions' =
       [user_positions EXCEPT ![ListenKey] = SaleWrite(@, raceRead.sell, raceEv.sell)]
  /\ racePc' = [racePc EXCEPT !.sell = "done"]
  /\ UNCHANGED raceRead
  /\ RaceUnchanged

ListenNext ==
  \/ ListenPurchaseUpsert
  \/ ListenPurchaseAvg
  \/ ListenSaleFind
  \/ ListenSaleUpdate

SpecListener == ListenInit /\ [][ListenNext]_vars

\* The totals a lost update shows in.
Totals(p) ==
  IF p = NoPos THEN NoPos
  ELSE [total_shares |-> p.total_shares,
        total_cost_basis |-> p.total_cost_basis,
        realized_pnl |-> p.realized_pnl]

\* C11 (as claimed): when a purchase handler and a sale handler on the same
\* position have both finished, in whatever order their database calls were
\* interleaved, totalShares, totalCostBasis and realizedPnl of the position
\* are those of purchase-then-sale or of sale-then-purchase.
C11_PurchaseSaleSerializable ==
  (racePc.buy = "done" /\ racePc.sell = "done")
    => LET p0 == race0.pos[ListenKey] IN
       \/ Totals(user_positions[ListenKey]) =
            Totals(handleSale(handlePurchase(p0, raceEv.buy), raceEv.sell))
       \/ Totals(user_positions[ListenKey]) =
            Totals(handlePurchase(handleSale(p0, raceEv.sell), raceEv.buy))

-----------------------------------------------------------------------------
(* SpecKinds: the poller on a chain where one thing fails on every attempt, *)
(* the query of one kind or the parsing of one trade event. The process     *)
(* does not die and the loop takes its steps (weak fairness).               *)

BrokenChoices ==
  {NoBroken}
    \cup {[query |-> {k}, payload |-> {}] : k \in KindSet}
    \cup {[query |-> {}, payload |-> {e}] : e \in TradeIds}

KindsInit ==
  /\ StoreInit
  /\ PollerIdle
  /\ broken \in BrokenChoices
  /\ LedgerIdle /\ RetryIdle /\ MarketIdle /\ AcctIdle /\ RaceIdle

\* The error of one kind propagating to the catch of poll(): the cycle is
\* abandoned and the next one begins with the first kind.
FetchFailRestartsCycle ==
  /\ pc = "fetch"
  /\ CurKind \in broken.query
  /\ kindIdx' = 1
  /\ UNCHANGED <<tip, broken, isRunning, cursors, pc, batch, batchPos>>
  /\ UNCHANGED <<storeVars, pollGhost, ledgerVars, retryVars, marketVars, raceVars>>

\* queryEvents throws: the catch inside the loop over the kinds logs the
\* error and the loop goes on with the next kind.
FetchFail ==
  /\ pc = "fetch"
  /\ CurKind \in broken.query
  /\ kindIdx' = NextKindIdx
  /\ UNCHANGED <<tip, broken, isRunning, cursors, pc, batch, batchPos>>
  /\ UNCHANGED <<storeVars, pollGhost, ledgerVars, retryVars, marketVars, raceVars>>

\* A failing handler after which the cursor of the kind moves past the batch.
ParseFailAdvancing ==
  /\ pc = "h_trades"
  /\ CurId \in broken.payload
  /\ raisedIn' = [raisedIn EXCEPT ![CurKind] = batch]
  /\ cursors' = [cursors EXCEPT ![CurKind] = batch[Len(batch)]]
  /\ pc' = "fetch"
  /\ kindIdx' = NextKindIdx
  /\ batch' = <<>>
  /\ batchPos' = 0
  /\ UNCHANGED <<tip, broken, isRunning>>
  /\ UNCHANGED <<faults, crashes, returnedOK, applied, crashedMid, redelivered,
                 startSaved, startTip, base, cacheFailed>>
  /\ UNCHANGED <<storeVars, ledgerVars, retryVars, marketVars, raceVars>>

\* A trade handler converts the payload with BigInt(...) before its first
\* insert; a field that does not convert throws, the handler rethrows (the
\* error is no duplicate key), the catch of the loop over the kinds logs it
\* and the loop goes on with the next kind.
ParseFail ==
  /\ pc = "h_trades"
  /\ CurId \in broken.payload
  /\ raisedIn' = [raisedIn EXCEPT ![CurKind] = batch]
  /\ pc' = "fetch"
  /\ kindIdx' = NextKindIdx
  /\ batch' = <<>>
  /\ batchPos' = 0
  /\ UNCHANGED <<tip, broken, isRunning, cursors>>
  /\ UNCHANGED <<faults, crashes, returnedOK, applied, crashedMid, redelivered,
                 startSaved, startTip, base, cacheFailed>>
  /\ UNCHANGED <<storeVars, ledgerVars, retryVars, marketVars, raceVars>>

\* The steps of the process.
KindsStep ==
  \/ Start
  \/ Fetch
  \/ FetchFail
  \/ ParseFail
  \/ HandleTradesInsert
  \/ HandleEventsInsert
  \/ HandleTrack
  \/ HandleAvg
  \/ HandleMarketResolved
  \/ HandleMarketCreated
  \/ Advance

KindsNext == Emit \/ KindsStep

SpecKinds == KindsInit /\ [][KindsNext]_vars /\ WF_vars(KindsStep)

\* Nothing of kind k fails on every attempt.
Healthy(k) ==
  /\ k \notin broken.query
  /\ \A e \in broken.payload : e[1] # k

\* C22: with the query or a handler of one kind failing on every cycle,
\* every event of any other kind that is emitted after the cursor of its
\* kind is handled and the cursor of its kind moves to it or past it.
C22_KindsIndependent ==
  \A e \in EventIds :
    (/\ isRunning
     /\ Healthy(e[1])
     /\ tip[e[1]] >= e[2]
     /\ cursors[e[1]] < e[2])
      ~> (cursors[e[1]] >= e[2] /\ e \in returnedOK)

\* The query of the first kind of the cycle is failing, and an event of the
\* second kind has been handled and its cursor has moved to it: the first
\* kind was visited, and failed, in that very cycle.
C22_Witness ==
  /\ broken.query = {KindSeq[1]}
  /\ tip[KindSeq[1]] > cursors[KindSeq[1]]
  /\ <<KindSeq[2], 1>> \in returnedOK
  /\ cursors[KindSeq[2]] >= 1

\* C23 (as claimed): a trade event whose payload does not parse is skipped:
\* once it is emitted after the cursor of its kind, the cursor of its kind
\* eventually moves to it or past it.
C23_MalformedSkipped ==
  \A e \in TradeIds :
    (/\ isRunning
     /\ e \in broken.payload
     /\ tip[e[1]] >= e[2]
     /\ cursors[e[1]] < e[2])
      ~> (cursors[e[1]] >= e[2])

\* A step in which a query or a handler fails.
FailureStep ==
  /\ pc \in {"fetch", "h_trades"}
  /\ pc' = "fetch"
  /\ kindIdx' # kindIdx
  /\ UNCHANGED returnedOK
  /\ \/ CurKind \in broken.query
     \/ pc = "h_trades" /\ CurId \in broken.payload

\* C24: a failing query or handler leaves the poller running, at the fetch
\* of the next kind, with every cursor (in memory and persisted) as it was;
\* and the running poller comes back to the fetch of every kind, the
\* failing one included.
C24_FailureKeepsLoop ==
  /\ [][FailureStep =>
          /\ isRunning'
          /\ cursors' = cursors
          /\ poller_cursors' = poller_cursors
          /\ kindIdx' = NextKindIdx]_vars
  /\ \A k \in KindSet :
       isRunning ~> (isRunning /\ pc = "fetch" /\ CurKind = k)

\* The batch of a kind was abandoned on a failing handler, and the next
\* fetch of the kind has returned the very same batch.
C24_Witness ==
  /\ isRunning
  /\ pc = "h_trades"
  /\ broken.payload # {}
  /\ raisedIn[CurKind] # <<>>
  /\ batch = raisedIn[CurKind]
  /\ CurId \in broken.payload

-----------------------------------------------------------------------------
(* SpecRetry: runs of retryFailedPositionUpdates, one after the other, on  *)
(* a queue of three jobs. A settlement call of an attempt may throw; the   *)
(* find, deleteOne and updateOne on failed_position_updates are taken to   *)
(* succeed. Nothing in the repository inserts into the collection: the     *)
(* queue starts with jobs of any retryCount from 0 to the bound.           *)

MaxRuns == 2
MaxRetries == 3

JobTimestamp(j) == CASE j = "j1" -> 2 [] j = "j2" -> 1 [] j = "j3" -> 3
JobMarket(j) == IF j = "j2" THEN "M2" ELSE "M1"
JobValue(j) == 1

QueuedJob(j, c) ==
  [exists |-> TRUE, marketId |-> JobMarket(j), resolvedValue |-> JobValue(j),
   timestamp |-> JobTimestamp(j), retryCount |-> c,
   lastRetryAt |-> Unset, lastError |-> Unset]

RetryInit ==
  /\ SeededStore(Keys)
  /\ PollIdle /\ LedgerIdle /\ AcctIdle /\ RaceIdle /\ MarketIdle
  /\ \E c \in [JobIds -> 0..MaxRetries] :
       /\ failed_position_updates = [j \in JobIds |-> QueuedJob(j, c[j])]
       /\ attempts = [j \in JobIds |-> [NoAttempt EXCEPT !.first = c[j]]]
  /\ retryRun = NoRun

\* The filter with the bound included.
EligibleUpTo(q) ==
  {j \in JobIds : q[j] # NoJob /\ q[j].retryCount <= MaxRetries}

\* find({ retryCount: { $lt: 3 } })
Eligible(q) ==
  {j \in JobIds : q[j] # NoJob /\ q[j].retryCount < MaxRetries}

\* The jobs of S, the latest timestamp first.
NewestFirst(q, S) ==
  CHOOSE s \in [1..Cardinality(S) -> S] :
    /\ \A i, j \in 1..Cardinality(S) : i # j => s[i] # s[j]
    /\ \A i, j \in 1..Cardinality(S) : i < j => q[s[i]].timestamp >= q[s[j]].timestamp

\* sort({ timestamp: 1 }).toArray()
OldestFirst(q, S) ==
  CHOOSE s \in [1..Cardinality(S) -> S] :
    /\ \A i, j \in 1..Cardinality(S) : i # j => s[i] # s[j]
    /\ \A i, j \in 1..Cardinality(S) : i < j => q[s[i]].timestamp <= q[s[j]].timestamp

RetryUnchanged ==
  /\ UNCHANGED <<trades, position_events, markets_cache, poller_cursors,
                 indexer_state, scheduled_resolutions>>
  /\ UNCHANGED <<pollVars, pollGhost, ledgerVars, raceVars, marketVars>>

\* The script is started: the find; without jobs it returns at once.
RetryStart ==
  /\ ~retryRun.on
  /\ retryRun.n < MaxRuns
  /\ LET found == OldestFirst(failed_position_updates, Eligible(failed_position_updates)) IN
       retryRun' = [on |-> Len(found) > 0, n |-> retryRun.n + 1,
                    failedJobs |-> found, pos |-> IF Len(found) > 0 THEN 1 ELSE 0]
  /\ attempts' = [j \in JobIds |-> [attempts[j] EXCEPT !.inRun = 0]]
  /\ UNCHANGED <<failed_position_updates, user_positions>>
  /\ RetryUnchanged

\* After the body of the loop for one job: the next job, or the summary and
\* the end of the process.
RetryAfterJob ==
  retryRun' = IF retryRun.pos < Len(retryRun.failedJobs)
              THEN [retryRun EXCEPT !.pos = @ + 1]
              ELSE [retryRun EXCEPT !.on = FALSE]

\* catch of the loop body: lastRetryAt, lastError, $inc retryCount.
RetryRecordFailure(q, j, t) ==
  IF q[j] = NoJob THEN q
  ELSE [q EXCEPT ![j] = [@ EXCEPT !.retryCount = @ + 1,
                                  !.lastRetryAt = <<t>>,
                                  !.lastError = <<"error">>]]

\* The loop body for the job at pos: closeLosingPositions and
\* calculateWinningPositions with the values of the job as found, then
\* deleteOne; when one of the two calls throws, the catch.
RetryJob ==
  /\ retryRun.on
  /\ LET j == retryRun.failedJobs[retryRun.pos]
         m == JobMarket(j)
         v == JobValue(j)
         t == retryRun.n
         closed == closeLosingPositions(user_positions, m, v, t)
     IN \/ /\ user_positions' = calculateWinningPositions(closed, m, v)
           /\ failed_position_updates' = [failed_position_updates EXCEPT ![j] = NoJob]
           /\ attempts' = [attempts EXCEPT ![j] =
                             [@ EXCEPT !.total = @ + 1, !.inRun = @ + 1]]
        \/ /\ user_positions' \in {user_positions, closed}
           /\ failed_position_updates' =
                RetryRecordFailure(failed_position_updates, j, t)
           /\ attempts' = [attempts EXCEPT ![j] =
                             [@ EXCEPT !.total = @ + 1, !.inRun = @ + 1,
                                       !.failed = @ + 1]]
  /\ RetryAfterJob
  /\ RetryUnchanged

RetryNext == RetryStart \/ RetryJob

SpecRetry == RetryInit /\ [][RetryNext]_vars

\* The step attempts job j (runs the settlement of j once).
Attempted(j) == attempts'[j].total = attempts[j].total + 1
AttemptFailed(j) == attempts'[j].failed = attempts[j].failed + 1

FoundJobs == {retryRun.failedJobs[i] : i \in 1..Len(retryRun.failedJobs)}

SeedPositions == [k \in Keys |-> handlePurchase(NoPos, SeedEvent(k))]
SettledOnce(m, v, t) ==
  calculateWinningPositions(closeLosingPositions(SeedPositions, m, v, t), m, v)

\* C38: when an attempt of a job succeeds, also after an attempt that failed
\* between the losing-set and the winning-set update, every position of the
\* market is as one settlement without failure leaves it (run at the time
\* the losing set was closed), and no position closed before is closed
\* again.
C38_RetryCompletesSettlement ==
  [][\A j \in JobIds :
       (Attempted(j) /\ ~AttemptFailed(j))
       => /\ \A k \in Keys :
               MarketOf(k) = JobMarket(j)
               => \E t \in 1..retryRun.n :
                    user_positions'[k] = SettledOnce(JobMarket(j), JobValue(j), t)[k]
          /\ \A k \in Keys :
               (user_positions[k] # NoPos /\ user_positions[k].closed_at # Unset)
               => user_positions'[k].closed_at = user_positions[k].closed_at]_vars

\* Job j1 failed in run 1 after the losing position k2 was closed (no other
\* job of the market was attempted) and succeeded in run 2.
C38_Witness ==
  /\ failed_position_updates["j1"] = NoJob
  /\ attempts["j1"].total = 2
  /\ attempts["j1"].failed = 1
  /\ attempts["j3"].total = 0
  /\ retryRun.n = 2
  /\ user_positions["k2"].closed_at = <<1>>
  /\ user_positions["k2"].close_reason = "LOST_RESOLUTION"
  /\ user_positions["k1"].unrealized_pnl = <<2>>

-----------------------------------------------------------------------------
(* SpecSellMode: handleSharesSold on one SharesSold event delivered with   *)
(* position_index = U64_MAX (FIFO) and with an index (targeted), each run  *)
(* on the same position; the two results are kept side by side.           *)

U64_MAX == "18446744073709551615"
PositionIndexes == {"0", "1", "7"}
SellModeAmounts == {<<4, 2>>, <<2, 3>>, <<6, 5>>, <<1, 1>>}

\* PositionTracker.isFifoSell
isFifoSell(positionIndex) ==
  IF positionIndex = Unset THEN FALSE ELSE positionIndex[1] = U64_MAX

\* The parameters handleSharesSold passes to handleSale for an event with
\* the given position_index.
SaleParams(sa, positionIndex) ==
  [kind |-> "SHARES_SOLD", tx |-> "c1", key |-> ListenKey,
   shares |-> sa[1], amount |-> sa[2], ts |-> 1,
   positionIndex |-> IF isFifoSell(positionIndex) THEN Unset ELSE positionIndex,
   isFifoSell |-> isFifoSell(positionIndex)]

\* The document handleSharesSold inserts into position_events.
SaleLogRecord(ev) ==
  [tx_digest |-> ev.tx,
   event_type |-> EventTypeOf(ev.kind),
   key |-> ev.key,
   shares_delta |-> -ev.shares,
   usdc_delta |-> ev.amount,
   timestamp |-> ev.ts,
   position_index |-> ev.positionIndex,
   is_fifo_sell |-> ev.isFifoSell]

SellModes == {"fifo", "targeted"}

SellModeInit ==
  /\ \E p \in ListenPositions :
       user_positions = [k \in Keys |-> IF k = ListenKey THEN p ELSE NoPos]
  /\ trades = {}
  /\ position_events = {}
  /\ markets_cache = [m \in Markets |-> NoMarket]
  /\ poller_cursors = [k \in KindSet |-> 0]
  /\ indexer_state = ""
  /\ scheduled_resolutions = {}
  /\ \E sa \in SellModeAmounts, i \in PositionIndexes :
       raceEv = [fifo |-> SaleParams(sa, <<U64_MAX>>),
                 targeted |-> SaleParams(sa, <<i>>)]
  /\ racePc = [md \in SellModes |-> "todo"]
  /\ raceRead = [md \in SellModes |-> NoPos]
  /\ race0 = [md \in SellModes |-> Unset]
  /\ PollIdle /\ LedgerIdle /\ RetryIdle /\ MarketIdle /\ AcctIdle

\* The sale of one mode: the record of position_events, then handleSale on
\* the position; the resulting document and the value returned are kept.
SellModeSale(md) ==
  /\ racePc[md] = "todo"
  /\ position_events' = position_events \cup {SaleLogRecord(raceEv[md])}
  /\ raceRead' = [raceRead EXCEPT ![md] = handleSale(user_positions[ListenKey], raceEv[md])]
  /\ race0' = [race0 EXCEPT ![md] = TrackerReturn(user_positions[ListenKey], raceEv[md])]
  /\ racePc' = [racePc EXCEPT ![md] = "done"]
  /\ UNCHANGED <<trades, user_positions, markets_cache, poller_cursors,
                 indexer_state, scheduled_resolutions, raceEv>>
  /\ UNCHANGED <<pollVars, pollGhost, ledgerVars, retryVars, marketVars>>

SellModeFifo == SellModeSale("fifo")
SellModeTargeted == SellModeSale("targeted")

SellModeNext == SellModeFifo \/ SellModeTargeted

SpecSellMode == SellModeInit /\ [][SellModeNext]_vars

\* C30: the FIFO sale and the targeted sale of the same shares for the same
\* proceeds, on the same position, leave the same position document and
\* return the same realizedPnlDelta.
C30_SellModeIrrelevant ==
  (racePc.fifo = "done" /\ racePc.targeted = "done") =>
    /\ raceRead.fifo = raceRead.targeted
    /\ race0.fifo = race0.targeted

\* Both sales have been applied to an existing position, recorded with
\* different modes, and have removed cost basis from it.
C30_Witness ==
  /\ racePc.fifo = "done" /\ racePc.targeted = "done"
  /\ user_positions[ListenKey] # NoPos
  /\ raceRead.targeted # NoPos
  /\ raceRead.targeted.total_cost_basis < user_positions[ListenKey].total_cost_basis
  /\ race0.targeted # Unset
  /\ \E r, q \in position_events : r.is_fifo_sell /\ ~q.is_fifo_sell

-----------------------------------------------------------------------------
(* SpecMarket: the MarketCreated and MarketResolved events of the markets  *)
(* handed to handleMarketCreated and handleMarketResolved in any order and *)
(* any number of times. The MarketResolved events carry one parsed payload,*)
(* chosen at the start among the payloads with at most MaxFields fields;   *)
(* the calls of the database succeed, the call of the API ends in any of   *)
(* its three ways.                                                         *)

MaxFields == 2

FieldNames == {ResolvedFields[i] : i \in 1..Len(ResolvedFields)}
Payloads ==
  {e \in [FieldNames -> FieldValues] :
     Cardinality({f \in FieldNames : e[f] # "absent"}) <= MaxFields}

MarketInit ==
  /\ StoreInit
  /\ PollIdle /\ LedgerIdle /\ RetryIdle /\ AcctIdle /\ RaceIdle
  /\ registry = [m \in Markets |-> Unset]
  /\ ingested = {}
  /\ \E e \in Payloads :
       delivery = [kind |-> "none", market |-> "", event |-> e, patch |-> "none",
                   threw |-> FALSE, resolvedValue |-> Undefined]

MarketUnchanged ==
  /\ UNCHANGED <<trades, position_events, user_positions, poller_cursors,
                 indexer_state>>
  /\ UNCHANGED <<pollVars, pollGhost, ledgerVars, raceVars, retryVars>>

\* handleMarketCreated(event of market m).
DeliverCreated ==
  \E m \in Markets :
    /\ markets_cache' = cacheMarketMetadata(markets_cache, m)
    /\ scheduled_resolutions' = scheduled_resolutions \cup {m}
    /\ delivery' = [delivery EXCEPT !.kind = "MARKET_CREATED", !.market = m,
                                    !.patch = "none", !.threw = FALSE,
                                    !.resolvedValue = Undefined]
    /\ ingested' = ingested \cup {<<"MARKET_CREATED", m>>}
    /\ UNCHANGED registry
    /\ MarketUnchanged

\* handleMarketResolved(event of market m).
DeliverResolved ==
  \E m \in Markets, patch \in PatchOutcomes :
    LET r == handleMarketResolved(markets_cache, registry, m, delivery.event, patch)
    IN  /\ markets_cache' = r.cache
        /\ registry' = r.registry
        /\ delivery' = [delivery EXCEPT !.kind = "MARKET_RESOLVED", !.market = m,
                                        !.patch = r.patch, !.threw = r.threw,
                                        !.resolvedValue = r.resolvedValue]
        /\ ingested' = ingested \cup {<<"MARKET_RESOLVED", m>>}
        /\ UNCHANGED scheduled_resolutions
        /\ MarketUnchanged

MarketNext == DeliverCreated \/ DeliverResolved
SpecMarket == MarketInit /\ [][MarketNext]_vars

\* C32: when the call of the API for a market-resolved event fails (error
\* answer, unreachable or timeout), the handler does not throw and the
\* markets_cache record of the market, when there is one, has status RESOLVED
\* and the resolved value of the event.
C32_SyncFailureKeepsCache ==
  [][(delivery'.kind = "MARKET_RESOLVED" /\ delivery'.patch \in {"response", "request"})
       => /\ ~delivery'.threw
          /\ markets_cache[delivery'.market] # NoMarket
               => /\ markets_cache'[delivery'.market].status = "RESOLVED"
                  /\ markets_cache'[delivery'.market].resolved_value
                       = <<delivery'.resolvedValue.n>>]_vars

\* A failed call of the API after the record of an active market was updated;
\* the API has not been given the value.
C32_Witness ==
  /\ delivery.kind = "MARKET_RESOLVED"
  /\ delivery.patch \in {"response", "request"}
  /\ markets_cache[delivery.market] # NoMarket
  /\ markets_cache[delivery.market].status = "RESOLVED"
  /\ markets_cache[delivery.market].resolved_value = <<1>>
  /\ registry[delivery.market] = Unset


\* The claim's decoding: the first of the five fields that is present.
Present(x) == x \notin {"absent", "null"}
FirstPresent(e) ==
  LET I == {i \in 1..Len(ResolvedFields) : Present(e[ResolvedFields[i]])}
  IN  IF I = {} THEN "absent"
      ELSE e[ResolvedFields[CHOOSE i \in I : \A j \in I : i <= j]]
IsNumeral(x) == x \in {"1", "1.5"}

\* C33: the resolved value of a market-resolved event is the value of the
\* first field present in the order winning_outcome, resolution_value,
\* resolved_value, value, result_value; when no field is present or that
\* value is not a number, the event is skipped: markets_cache is unchanged,
\* the API is not called and nothing is thrown.
C33_OrderedFallback ==
  [][delivery'.kind = "MARKET_RESOLVED"
       => IF IsNumeral(FirstPresent(delivery'.event))
          THEN delivery'.resolvedValue = ToNumber(FirstPresent(delivery'.event))
          ELSE /\ markets_cache' = markets_cache
               /\ registry' = registry
               /\ delivery'.patch = "none"
               /\ ~delivery'.threw]_vars


\* The payload of the MarketResolved events decodes to an integer.
Decodes(e) ==
  LET v == resolvedValueOf(e) IN v # Undefined /\ v # NaN /\ v.integer

\* C36: once the MarketCreated and the MarketResolved event of a market have
\* both been handled, in either order and with any re-delivery, its
\* markets_cache record has status RESOLVED with the resolved value; and a
\* record that is RESOLVED never goes back to ACTIVE with an empty
\* resolved_value.
C36_ResolvedIsFinal ==
  /\ [](\A m \in Markets :
          ( /\ {<<"MARKET_CREATED", m>>, <<"MARKET_RESOLVED", m>>} \subseteq ingested
            /\ Decodes(delivery.event) )
          => /\ markets_cache[m] # NoMarket
             /\ markets_cache[m].status = "RESOLVED"
             /\ markets_cache[m].resolved_value = <<resolvedValueOf(delivery.event).n>>)
  /\ [][\A m \in Markets :
          (markets_cache[m] # NoMarket /\ markets_cache[m].status = "RESOLVED")
          => ~( /\ markets_cache'[m].status = "ACTIVE"
                /\ markets_cache'[m].resolved_value = Unset )]_vars

-----------------------------------------------------------------------------
(* SpecBook: the events of two positions of market M1 and the settlement   *)
(* of its resolution. The events of one kind are handled in the order of   *)
(* the chain, each once; the kinds advance independently of each other, as *)
(* the cursors of the poller do. cursors[kind] counts the events of the    *)
(* kind handled so far.                                                    *)

BookStream(kind) ==
  CASE kind = "BET_PLACED" ->
         <<[kind |-> "BET_PLACED", tx |-> "p1", key |-> "k1", shares |-> 100, amount |-> 50, ts |-> 1],
           [kind |-> "BET_PLACED", tx |-> "p2", key |-> "k2", shares |-> 11, amount |-> 15, ts |-> 2]>>
    [] kind = "SHARES_SOLD" ->
         <<[kind |-> "SHARES_SOLD", tx |-> "q1", key |-> "k1", shares |-> 40, amount |-> 25, ts |-> 3],
           [kind |-> "SHARES_SOLD", tx |-> "q2", key |-> "k2", shares |-> 11, amount |-> 16, ts |-> 4]>>
    [] kind = "WINNINGS_CLAIMED" ->
         <<[kind |-> "WINNINGS_CLAIMED", tx |-> "w1", key |-> "k1", shares |-> 60, amount |-> 60, ts |-> 6]>>
    [] kind = "MARKET_RESOLVED" ->
         <<[kind |-> "MARKET_RESOLVED", tx |-> "r1", market |-> "M1", value |-> 1, ts |-> 5]>>
    [] OTHER -> <<>>

BookInit ==
  /\ StoreInit
  /\ PollIdle /\ LedgerIdle /\ RetryIdle /\ MarketIdle /\ AcctIdle /\ RaceIdle

BookPending(kind) == cursors[kind] < Len(BookStream(kind))
BookEvent(kind) == BookStream(kind)[cursors[kind] + 1]

\* The handler of a trade kind on the next event of the kind.
BookIngest(kind) ==
  /\ BookPending(kind)
  /\ Ingest(BookEvent(kind), kind)
  /\ cursors' = [cursors EXCEPT ![kind] = @ + 1]
  /\ UNCHANGED <<now, tip, broken, isRunning, pc, kindIdx, batch, batchPos>>

BookBetPlaced == BookIngest("BET_PLACED")
BookSharesSold == BookIngest("SHARES_SOLD")
BookWinningsClaimed == BookIngest("WINNINGS_CLAIMED")

\* The settlement of the resolution: closeLosingPositions, then
\* calculateWinningPositions.
BookSettle ==
  /\ BookPending("MARKET_RESOLVED")
  /\ LET job == BookEvent("MARKET_RESOLVED")
     IN  user_positions' =
           calculateWinningPositions(
             closeLosingPositions(user_positions, job.market, job.value, job.ts),
             job.market, job.value)
  /\ cursors' = [cursors EXCEPT !["MARKET_RESOLVED"] = @ + 1]
  /\ lastAct' = [lastAct EXCEPT !.op = "MARKET_RESOLVED",
                                !.ev = BookEvent("MARKET_RESOLVED"), !.ret = Unset,
                                !.swallowed = FALSE]
  /\ UNCHANGED <<trades, position_events, markets_cache, poller_cursors,
                 indexer_state, scheduled_resolutions>>
  /\ UNCHANGED <<now, settling, snap, liveSnap, acct>>
  /\ UNCHANGED <<tip, broken, isRunning, pc, kindIdx, batch, batchPos>>
  /\ UNCHANGED <<pollGhost, raceVars, retryVars, marketVars>>

BookNext == BookBetPlaced \/ BookSharesSold \/ BookWinningsClaimed \/ BookSettle
SpecBook == BookInit /\ [][BookNext]_vars

\* The event of the kind was handled in this step.
BookStep(kind) == cursors'[kind] = cursors[kind] + 1

\* C34: from no position, the purchase of 100 shares for 50 gives
\* totalShares 100 and totalCostBasis 50; the sale of 40 shares for 25 then
\* removes cost 20, realizes 5 and leaves 60 shares with cost basis 30 on an
\* active position; the settlement of a resolution inside the range then
\* leaves it active with unrealizedPnl 30; the claim with payout 60 then
\* brings realizedPnl to 35, zeroes totalShares and totalCostBasis and
\* closes the position with closeReason claimed.
C34_ScenarioTrace ==
  [][LET p == user_positions["k1"]
         q == user_positions'["k1"]
     IN /\ (BookStep("BET_PLACED") /\ lastAct'.ev.key = "k1" /\ p = NoPos)
             => (q # NoPos /\ q.total_shares = 100 /\ q.total_cost_basis = 50)
        /\ ( /\ BookStep("SHARES_SOLD") /\ lastAct'.ev.key = "k1"
             /\ p # NoPos /\ p.total_shares = 100 /\ p.total_cost_basis = 50
             /\ p.realized_pnl = 0 /\ p.is_active )
             => /\ acct'["k1"].removed = acct["k1"].removed + 20
                /\ q.realized_pnl = 5
                /\ q.total_shares = 60
                /\ q.total_cost_basis = 30
                /\ q.is_active
        /\ ( /\ BookStep("MARKET_RESOLVED")
             /\ p # NoPos /\ p.total_shares = 60 /\ p.total_cost_basis = 30
             /\ p.is_active )
             => (q.is_active /\ q.unrealized_pnl = <<30>>)
        /\ ( /\ BookStep("WINNINGS_CLAIMED") /\ lastAct'.ev.key = "k1"
             /\ p # NoPos /\ p.total_shares = 60 /\ p.total_cost_basis = 30
             /\ p.realized_pnl = 5 /\ p.unrealized_pnl = <<30>> /\ p.is_active )
             => /\ q.realized_pnl = 35
                /\ q.total_shares = 0
                /\ q.total_cost_basis = 0
                /\ ~q.is_active
                /\ q.close_reason = "CLAIMED"]_vars

\* The four steps have been taken in this order.
C34_Witness ==
  /\ lastAct.op = "WINNINGS_CLAIMED"
  /\ ~lastAct.swallowed
  /\ user_positions["k1"] # NoPos
  /\ user_positions["k1"].realized_pnl = 35
  /\ user_positions["k1"].total_shares_sold = 100
  /\ user_positions["k1"].total_proceeds = 85
  /\ user_positions["k1"].close_reason = "CLAIMED"


\* The fields of a position that do not record when or by which transaction
\* it was last written.
Fin(p) ==
  IF p = NoPos THEN p
  ELSE [total_shares |-> p.total_shares, total_cost_basis |-> p.total_cost_basis,
        realized_pnl |-> p.realized_pnl, unrealized_pnl |-> p.unrealized_pnl,
        total_shares_sold |-> p.total_shares_sold, total_proceeds |-> p.total_proceeds,
        is_active |-> p.is_active, close_reason |-> p.close_reason]

BookKinds == {"BET_PLACED", "SHARES_SOLD", "WINNINGS_CLAIMED", "MARKET_RESOLVED"}
BookEvents ==
  UNION {{BookStream(kind)[i] : i \in 1..Len(BookStream(kind))} : kind \in BookKinds}
BookDone == \A kind \in BookKinds : ~BookPending(kind)

\* The positions after the six events, handled in the order of their
\* timestamps.
BookEventAt(t) == CHOOSE e \in BookEvents : e.ts = t
BookApply(before, ev) ==
  IF ev.kind = "MARKET_RESOLVED"
  THEN calculateWinningPositions(
         closeLosingPositions(before, ev.market, ev.value, ev.ts),
         ev.market, ev.value)
  ELSE [before EXCEPT ![ev.key] = TrackerApply(@, ev)]

BookInOrder ==
  BookApply(BookApply(BookApply(BookApply(BookApply(BookApply(
    [k \in Keys |-> NoPos],
    BookEventAt(1)), BookEventAt(2)), BookEventAt(3)), BookEventAt(4)),
    BookEventAt(5)), BookEventAt(6))

\* C35: when all events have been handled, in order within each kind and in
\* any interleaving of the kinds, every position is in the state that
\* handling them in the order of the chain gives (apart from the fields that
\* record the last write).
C35_InterleavingIrrelevant ==
  BookDone =>
    \A k \in Keys :
      Fin(user_positions[k]) = Fin(BookInOrder[k])


\* C40: a position that purchases and sales have written (no claim), none
\* of the sales for more shares than the position held, has totalShares >= 0
\* and totalCostBasis >= 0, and when a sale has brought totalShares to 0 the
\* totalCostBasis is 0 as well. (In SpecBook no sale exceeds the shares of a
\* position without a claim.)
C40_SharesAndCostNonNegative ==
  \A k \in Keys :
    (user_positions[k] # NoPos /\ acct[k].claims = 0)
    => /\ user_positions[k].total_shares >= 0
       /\ user_positions[k].total_cost_basis >= 0
       /\ (user_positions[k].total_shares = 0 /\ user_positions[k].total_shares_sold > 0)
            => user_positions[k].total_cost_basis = 0

-----------------------------------------------------------------------------
(* SpecBackfill: the script backfill-realized-pnl-delta run up to MaxRuns  *)
(* times over the position_events of one position. The log at the start    *)
(* holds MaxEvents events with timestamps 1..MaxEvents, of any of the      *)
(* three types, some of the sales and claims already with a                *)
(* realized_pnl_delta.                                                     *)

MaxEvents == 3

BackfillAmounts == {<<4, 4>>, <<2, 3>>, <<2, 2>>}
BackfillTypes == {"SHARES_PURCHASED", "SHARES_SOLD", "REWARDS_CLAIMED"}

BackfillRecord(t, type, sa, d) ==
  [key |-> "k1", timestamp |-> t, tx_digest |-> TxNames[t], event_type |-> type,
   shares_delta |-> IF type = "SHARES_PURCHASED" THEN sa[1] ELSE -sa[1],
   usdc_delta |-> IF type = "SHARES_PURCHASED" THEN -sa[2] ELSE sa[2],
   realized_pnl_delta |-> d]

BackfillChoices ==
  {c \in BackfillTypes \X BackfillAmounts \X {Unset, <<1>>} :
     c[1] = "SHARES_PURCHASED" => c[3] = Unset}

BackfillLogs ==
  {{BackfillRecord(t, f[t][1], f[t][2], f[t][3]) : t \in 1..MaxEvents} :
     f \in [1..MaxEvents -> BackfillChoices]}

\* !event.realized_pnl_delta: the field is absent or 0.
Falsy(d) == d = Unset \/ d = <<0>>

\* updateOne({ _id }, { $set: { realized_pnl_delta } })
SetDelta(log, e, d) == (log \ {e}) \cup {[e EXCEPT !.realized_pnl_delta = <<d>>]}

\* One pass of the loop over the events of a position.
BackfillEvent(st, e) ==
  CASE e.event_type = "SHARES_PURCHASED" ->
         [st EXCEPT !.totalShares = @ + e.shares_delta,
                    !.totalCostBasis = @ - e.usdc_delta]
    [] e.event_type = "SHARES_SOLD" ->
         IF Falsy(e.realized_pnl_delta) /\ st.totalShares > 0
         THEN LET sharesSold == -e.shares_delta
                  costBasisOfSold ==
                    FloorOfProduct(st.totalCostBasis, st.totalShares, sharesSold)
              IN [log |-> SetDelta(st.log, e, e.usdc_delta - costBasisOfSold),
                  totalShares |-> st.totalShares - sharesSold,
                  totalCostBasis |-> st.totalCostBasis - costBasisOfSold]
         ELSE st
    [] e.event_type = "REWARDS_CLAIMED" ->
         IF Falsy(e.realized_pnl_delta)
         THEN [log |-> SetDelta(st.log, e, e.usdc_delta - st.totalCostBasis),
               totalShares |-> 0, totalCostBasis |-> 0]
         ELSE st

\* The events S of a position in the order of sort({ timestamp: 1 }).
RECURSIVE BackfillLoop(_, _)
BackfillLoop(st, S) ==
  IF S = {} THEN st
  ELSE LET e == CHOOSE x \in S : \A y \in S : x.timestamp <= y.timestamp
       IN BackfillLoop(BackfillEvent(st, e), S \ {e})

BackfillPosition(log, k) ==
  BackfillLoop([log |-> log, totalShares |-> 0, totalCostBasis |-> 0], GroupOf(log, k)).log

\* backfillRealizedPnlDelta: every position of the log in turn.
backfillRealizedPnlDelta(log) ==
  BackfillPosition(BackfillPosition(BackfillPosition(log, "k1"), "k2"), "k3")

BackfillInit ==
  /\ trades = {}
  /\ position_events \in BackfillLogs
  /\ user_positions = [k \in Keys |-> NoPos]
  /\ markets_cache = [m \in Markets |-> NoMarket]
  /\ poller_cursors = [k \in KindSet |-> 0]
  /\ indexer_state = ""
  /\ scheduled_resolutions = {}
  /\ PollIdle /\ LedgerIdle /\ RetryIdle /\ MarketIdle /\ AcctIdle /\ RaceIdle

\* One run of the script.
BackfillRun ==
  /\ now < MaxRuns
  /\ position_events' = backfillRealizedPnlDelta(position_events)
  /\ now' = now + 1
  /\ lastAct' = [lastAct EXCEPT !.op = "backfill"]
  /\ UNCHANGED <<trades, user_positions, markets_cache, poller_cursors,
                 indexer_state, scheduled_resolutions>>
  /\ UNCHANGED <<settling, snap, liveSnap, acct>>
  /\ UNCHANGED <<pollVars, pollGhost, raceVars, retryVars, marketVars>>

SpecBackfill == BackfillInit /\ [][BackfillRun]_vars

\* C37: a run of the backfill after the first one changes no event of the
\* log: every sale and claim keeps the realized_pnl_delta the first run
\* left, also when that delta is 0 and when only some events carried a
\* delta before the first run.
C37_BackfillIdempotent ==
  [][(now' = now + 1 /\ now >= 1) => position_events' = position_events]_vars


-----------------------------------------------------------------------------
(* Adjacent ranges and a resolved value on their shared boundary.           *)

\* ka and kb are positions of market m whose ranges meet at v: ka ends
\* where kb starts.
MeetAt(ka, kb, m, v) ==
  /\ ka # kb
  /\ MarketOf(ka) = m /\ MarketOf(kb) = m
  /\ RangeUpper(ka) = v /\ RangeLower(kb) = v

\* C39: a settlement at the boundary shared by two adjacent ranges closes
\* the active positions of exactly one of the two ranges as losing, and its
\* winning update reaches the active positions of exactly one of them.
C39_BoundaryHasOneWinner ==
  [][\A ka, kb \in Keys :
       /\ (/\ ~settling.on /\ settling'.on
           /\ MeetAt(ka, kb, settling'.m, settling'.v)
           /\ user_positions[ka] # NoPos /\ user_positions[ka].is_active
           /\ user_positions[kb] # NoPos /\ user_positions[kb].is_active)
          => (user_positions'[ka].is_active # user_positions'[kb].is_active)
       /\ (/\ settling.on /\ ~settling'.on
           /\ MeetAt(ka, kb, settling.m, settling.v)
           /\ user_positions[ka] # NoPos /\ user_positions[kb] # NoPos)
          => ~(/\ WinningFilter(user_positions[ka], ka, settling.m, settling.v)
               /\ WinningFilter(user_positions[kb], kb, settling.m, settling.v))]_vars

====
